---- MODULE Spec2Model ----
(***************************************************************************)
(* Model of the statistical calculator core: Distribution Registry,        *)
(* Parameter Validator, Calculation Orchestrator and application state.    *)
(*                                                                         *)
(* A C double is a record [cls, v, sym]:                                   *)
(*   cls = "fin": a finite number; v is its value in thousandths           *)
(*                (1.0 is 1000, 0.001 is 1, 0.999 is 999); sym = "" when   *)
(*                the value is known exactly, otherwise sym names the       *)
(*                numerical kernel that produced a finite value the model   *)
(*                does not compute (v is then 0);                           *)
(*   cls = "nan": NaN;   cls = "inf": +Infinity (v = 1), -Infinity (v = -1).*)
(* Comparisons follow IEEE 754: every ordered comparison with NaN is false. *)
(***************************************************************************)
EXTENDS Integers, Sequences, FiniteSets, TLC

VARIABLES vin, vout, vpc,
          request, outcome, rpc,
          state, op, adds,
          reg, thr,
          darg, dres,
          num,
          hist,
          bridge, kbd, lru

valVars == <<vin, vout, vpc>>
reqVars == <<request, outcome, rpc>>
appVars == <<state, op, adds>>
regVars == <<reg, thr>>
distVars == <<darg, dres>>
numVars == <<num>>
histVars == <<hist>>
jsVars == <<bridge, kbd, lru>>
vars == <<vin, vout, vpc, request, outcome, rpc, state, op, adds,
          reg, thr, darg, dres, num, hist, bridge, kbd, lru>>

(***************************************************************************)
(* Doubles                                                                 *)
(***************************************************************************)
Fin(n) == [cls |-> "fin", v |-> n, sym |-> ""]
Sym(kernel) == [cls |-> "fin", v |-> 0, sym |-> kernel]
NaN == [cls |-> "nan", v |-> 0, sym |-> ""]
PosInf == [cls |-> "inf", v |-> 1, sym |-> ""]
NegInf == [cls |-> "inf", v |-> -1, sym |-> ""]

isnan(a) == a.cls = "nan"
isinf(a) == a.cls = "inf"
isfinite(a) == a.cls = "fin"

\* a < b on doubles
Lt(a, b) ==
    /\ ~isnan(a)
    /\ ~isnan(b)
    /\ CASE isfinite(a) /\ isfinite(b) -> a.v < b.v
         [] isinf(a) /\ isfinite(b) -> a.v < 0
         [] isfinite(a) /\ isinf(b) -> b.v > 0
         [] OTHER -> a.v < b.v

Gt(a, b) == Lt(b, a)
Le(a, b) == ~isnan(a) /\ ~isnan(b) /\ ~Lt(b, a)
Ge(a, b) == Le(b, a)
\* a == b on doubles (NaN equals nothing)
Eq(a, b) == ~isnan(a) /\ ~isnan(b) /\ a.cls = b.cls /\ a.v = b.v

\* floor(x) == x for a double
IsIntegral(a) == isinf(a) \/ (isfinite(a) /\ a.v % 1000 = 0)

is_finite_number(value) == isfinite(value)

(***************************************************************************)
(* Distribution kinds and the registry                                     *)
(***************************************************************************)
DIST_NORMAL == 0
DIST_EXPONENTIAL == 1
DIST_CHI_SQUARE == 2
DIST_T_DISTRIBUTION == 3
DIST_F_DISTRIBUTION == 4
DIST_GEOMETRIC == 5
DIST_HYPERGEOMETRIC == 6
DIST_BINOMIAL == 7
DIST_NEGATIVE_BINOMIAL == 8
DIST_POISSON == 9
DIST_COUNT == 10

DISTRIBUTION_CONTINUOUS == 0
DISTRIBUTION_DISCRETE == 1

MAX_PARAMETERS == 4

Range(lo, hi) == <<Fin(lo), Fin(hi)>>
Unused == Range(0, 0)

Entry(type, name, category, param_count, param_ranges, impl) ==
    [type |-> type, name |-> name, category |-> category,
     param_count |-> param_count, param_ranges |-> param_ranges,
     distribution_impl |-> impl]

\* the table after initialize_registry has bound the implementations
registry_entries ==
    << Entry(DIST_NORMAL, "Normal", DISTRIBUTION_CONTINUOUS, 2,
             <<Range(-1000000, 1000000), Range(1, 1000000), Unused, Unused>>, "normal"),
       Entry(DIST_EXPONENTIAL, "Exponential", DISTRIBUTION_CONTINUOUS, 1,
             <<Range(1, 1000000), Unused, Unused, Unused>>, "exponential"),
       Entry(DIST_CHI_SQUARE, "Chi-Square", DISTRIBUTION_CONTINUOUS, 1,
             <<Range(1000, 1000000), Unused, Unused, Unused>>, "chi_square"),
       Entry(DIST_T_DISTRIBUTION, "t-Distribution", DISTRIBUTION_CONTINUOUS, 1,
             <<Range(1000, 1000000), Unused, Unused, Unused>>, "t"),
       Entry(DIST_F_DISTRIBUTION, "F-Distribution", DISTRIBUTION_CONTINUOUS, 2,
             <<Range(1000, 1000000), Range(1000, 1000000), Unused, Unused>>, "f"),
       Entry(DIST_GEOMETRIC, "Geometric", DISTRIBUTION_DISCRETE, 1,
             <<Range(1, 999), Unused, Unused, Unused>>, "geometric"),
       Entry(DIST_HYPERGEOMETRIC, "Hypergeometric", DISTRIBUTION_DISCRETE, 3,
             <<Range(1000, 10000000), Range(0, 10000000), Range(1000, 10000000), Unused>>,
             "hypergeometric"),
       Entry(DIST_BINOMIAL, "Binomial", DISTRIBUTION_DISCRETE, 2,
             <<Range(1000, 10000000), Range(1, 999), Unused, Unused>>, "binomial"),
       Entry(DIST_NEGATIVE_BINOMIAL, "Negative Binomial", DISTRIBUTION_DISCRETE, 2,
             <<Range(1000, 10000000), Range(1, 999), Unused, Unused>>, "negative_binomial"),
       Entry(DIST_POISSON, "Poisson", DISTRIBUTION_DISCRETE, 1,
             <<Range(1, 1000000), Unused, Unused, Unused>>, "poisson") >>

\* a NULL entry pointer
NullEntry == Entry(-1, "NULL", DISTRIBUTION_CONTINUOUS, 0,
                   <<Unused, Unused, Unused, Unused>>, "NULL")
\* a NULL range pointer
NullRange == <<NaN, NaN>>

registry_is_valid_distribution_type(type) == type < DIST_COUNT

registry_get_distribution(type) ==
    IF type >= DIST_COUNT
    THEN NullEntry
    ELSE LET hits == {i \in 1..DIST_COUNT : registry_entries[i].type = type}
         IN IF hits = {}
            THEN NullEntry
            ELSE registry_entries[CHOOSE i \in hits : \A j \in hits : i <= j]

registry_get_parameter_count(type) ==
    LET entry == registry_get_distribution(type)
    IN IF entry = NullEntry THEN 0 ELSE entry.param_count

registry_get_parameter_ranges(type, param_index) ==
    LET entry == registry_get_distribution(type)
    IN IF entry = NullEntry \/ param_index >= entry.param_count
       THEN NullRange
       ELSE entry.param_ranges[param_index + 1]

get_distribution(type) ==
    LET entry == registry_get_distribution(type)
    IN IF entry = NullEntry THEN "NULL" ELSE entry.distribution_impl

\* the model structure filled from the registry entry (NullEntry for NULL)
get_distribution_model(type) == registry_get_distribution(type)

is_valid_distribution_type(type) == registry_is_valid_distribution_type(type)

(***************************************************************************)
(* Parameter Validator                                                     *)
(***************************************************************************)
VALIDATION_SUCCESS == 0
VALIDATION_ERROR_INVALID_COUNT == 1
VALIDATION_ERROR_OUT_OF_RANGE == 2
VALIDATION_ERROR_INVALID_FORMAT == 3
VALIDATION_ERROR_MATHEMATICAL_CONSTRAINT == 4
VALIDATION_ERROR_NULL_POINTER == 5
VALIDATION_ERROR_UNKNOWN_DISTRIBUTION == 6

\* the validation_result_t after clear_validation_result (the message text
\* is determined by error_code and is not kept)
clear_validation_result ==
    [error_code |-> VALIDATION_SUCCESS, invalid_parameter_index |-> 0,
     suggested_value |-> Fin(0), has_suggestion |-> 0]

validate_parameter_count(distribution, provided_count) ==
    IF ~registry_is_valid_distribution_type(distribution)
    THEN [clear_validation_result EXCEPT !.error_code = VALIDATION_ERROR_UNKNOWN_DISTRIBUTION]
    ELSE IF provided_count # registry_get_parameter_count(distribution)
         THEN [clear_validation_result EXCEPT !.error_code = VALIDATION_ERROR_INVALID_COUNT]
         ELSE clear_validation_result

is_parameter_in_range(distribution, param_index, value) ==
    LET range == registry_get_parameter_ranges(distribution, param_index)
    IN IF range = NullRange
       THEN FALSE
       ELSE Ge(value, range[1]) /\ Le(value, range[2])

\* (range[0] + range[1]) / 2.0, to the thousandth
Midpoint(range) == Fin((range[1].v + range[2].v) \div 2)

\* a suggestion that offers the opposite bound
SuggestOppositeBound(distribution, param_index, invalid_value) ==
    LET range == registry_get_parameter_ranges(distribution, param_index)
    IN IF range = NullRange THEN invalid_value
       ELSE IF Lt(invalid_value, range[1]) THEN range[2]
       ELSE IF Gt(invalid_value, range[2]) THEN range[1]
       ELSE Midpoint(range)

suggest_parameter_value(distribution, param_index, invalid_value) ==
    LET range == registry_get_parameter_ranges(distribution, param_index)
    IN IF range = NullRange THEN invalid_value
       ELSE IF Lt(invalid_value, range[1]) THEN range[1]
       ELSE IF Gt(invalid_value, range[2]) THEN range[2]
       ELSE Midpoint(range)

has_parameter_suggestion(distribution, param_index) ==
    IF registry_get_parameter_ranges(distribution, param_index) # NullRange THEN 1 ELSE 0

\* a range check that reports the violation without a suggestion
RangeCheckWithoutSuggestion(distribution, param_index, value) ==
    IF ~is_finite_number(value)
    THEN [clear_validation_result EXCEPT !.error_code = VALIDATION_ERROR_INVALID_FORMAT]
    ELSE IF ~is_parameter_in_range(distribution, param_index, value)
         THEN [clear_validation_result EXCEPT
                  !.error_code = VALIDATION_ERROR_OUT_OF_RANGE,
                  !.invalid_parameter_index = param_index]
         ELSE clear_validation_result

validate_parameter_range(distribution, param_index, value) ==
    IF ~is_finite_number(value)
    THEN [clear_validation_result EXCEPT !.error_code = VALIDATION_ERROR_INVALID_FORMAT]
    ELSE IF ~is_parameter_in_range(distribution, param_index, value)
         THEN [error_code |-> VALIDATION_ERROR_OUT_OF_RANGE,
               invalid_parameter_index |-> param_index,
               suggested_value |-> suggest_parameter_value(distribution, param_index, value),
               has_suggestion |-> has_parameter_suggestion(distribution, param_index)]
         ELSE clear_validation_result

\* a constraint violation that always names parameter 0 and suggests it
MathViolationOnFirst(index, suggestion) ==
    [error_code |-> VALIDATION_ERROR_MATHEMATICAL_CONSTRAINT,
     invalid_parameter_index |-> 0,
     suggested_value |-> suggestion, has_suggestion |-> 1]

MathViolation(index, suggestion) ==
    [error_code |-> VALIDATION_ERROR_MATHEMATICAL_CONSTRAINT,
     invalid_parameter_index |-> index,
     suggested_value |-> suggestion, has_suggestion |-> 1]

\* fmax(1.0, n) for a finite n, without the rounding
FmaxOneUnrounded(n) == Fin(IF n.v > 1000 THEN n.v ELSE 1000)

\* round(fmax(1.0, n)) for a finite n
RoundFmaxOne(n) ==
    LET m == IF n.v > 1000 THEN n.v ELSE 1000
    IN Fin(((m + 500) \div 1000) * 1000)

validate_mathematical_constraints(distribution, parameters, param_count) ==
    CASE distribution = DIST_HYPERGEOMETRIC ->
           IF param_count >= 3
           THEN LET population == parameters[1]
                    success_states == parameters[2]
                    sample_size == parameters[3]
                IN IF Gt(success_states, population) THEN MathViolation(1, population)
                   ELSE IF Gt(sample_size, population) THEN MathViolation(2, population)
                   ELSE clear_validation_result
           ELSE clear_validation_result
      [] distribution = DIST_F_DISTRIBUTION ->
           IF param_count >= 2
           THEN LET df1 == parameters[1]
                    df2 == parameters[2]
                IN IF Lt(df1, Fin(1000)) \/ Lt(df2, Fin(1000))
                   THEN MathViolation(IF Lt(df1, Fin(1000)) THEN 0 ELSE 1, Fin(1000))
                   ELSE clear_validation_result
           ELSE clear_validation_result
      [] distribution \in {DIST_BINOMIAL, DIST_NEGATIVE_BINOMIAL} ->
           IF param_count >= 1
           THEN LET n == parameters[1]
                IN IF Lt(n, Fin(1000)) \/ ~IsIntegral(n)
                   THEN MathViolation(0, RoundFmaxOne(n))
                   ELSE clear_validation_result
           ELSE clear_validation_result
      [] OTHER -> clear_validation_result

validate_single_parameter(distribution, param_index, value) ==
    IF ~registry_is_valid_distribution_type(distribution)
    THEN [clear_validation_result EXCEPT !.error_code = VALIDATION_ERROR_UNKNOWN_DISTRIBUTION]
    ELSE IF param_index >= registry_get_parameter_count(distribution)
         THEN [clear_validation_result EXCEPT !.error_code = VALIDATION_ERROR_INVALID_COUNT]
         ELSE validate_parameter_range(distribution, param_index, value)

\* the loop over i = from .. param_count-1 of validate_distribution_parameters:
\* the first result that is not VALIDATION_SUCCESS, or success
RECURSIVE RangeLoop(_, _, _, _)
RangeLoop(distribution, parameters, param_count, i) ==
    IF i >= param_count
    THEN clear_validation_result
    ELSE LET result == validate_parameter_range(distribution, i, parameters[i + 1])
         IN IF result.error_code # VALIDATION_SUCCESS
            THEN result
            ELSE RangeLoop(distribution, parameters, param_count, i + 1)

\* a validation that evaluates the mathematical constraints before the ranges
ValidateConstraintsFirst(distribution, parameters, param_count) ==
    LET counted == validate_parameter_count(distribution, param_count)
    IN IF counted.error_code # VALIDATION_SUCCESS
       THEN counted
       ELSE LET math == validate_mathematical_constraints(distribution, parameters,
                                                          param_count)
            IN IF math.error_code # VALIDATION_SUCCESS
               THEN math
               ELSE RangeLoop(distribution, parameters, param_count, 0)

validate_distribution_parameters(distribution, parameters, param_count) ==
    LET counted == validate_parameter_count(distribution, param_count)
    IN IF counted.error_code # VALIDATION_SUCCESS
       THEN counted
       ELSE LET ranged == RangeLoop(distribution, parameters, param_count, 0)
            IN IF ranged.error_code # VALIDATION_SUCCESS
               THEN ranged
               ELSE validate_mathematical_constraints(distribution, parameters, param_count)

(***************************************************************************)
(* Distribution implementations: validate_params returns 1 for valid, 0    *)
(* for invalid; pdf and cdf return a double.  A finite value computed by a  *)
(* numerical kernel is Sym(kernel); the guards before the kernel (parameter *)
(* check, finiteness of x, support) are those of the code.                  *)
(***************************************************************************)
\* x > 0 for a finite double
Positive(a) == is_finite_number(a) /\ a.v > 0
\* a finite non-negative integer value
NonNegInteger(a) == is_finite_number(a) /\ a.v >= 0 /\ a.v % 1000 = 0
\* (int)floor(x) in thousandths, for a finite x
Floor(a) == (a.v \div 1000) * 1000

normal_validate_params(params, param_count) ==
    IF param_count # 2 THEN 0
    ELSE IF ~is_finite_number(params[1]) THEN 0
    ELSE IF ~is_finite_number(params[2]) \/ Le(params[2], Fin(0)) THEN 0
    ELSE 1

exponential_validate_params(params, param_count) ==
    IF param_count # 1 THEN 0
    ELSE IF ~is_finite_number(params[1]) \/ Le(params[1], Fin(0)) THEN 0
    ELSE 1

chi_square_validate_params(params, param_count) ==
    IF param_count # 1 THEN 0
    ELSE IF ~is_finite_number(params[1]) \/ Le(params[1], Fin(0)) THEN 0
    ELSE 1

t_validate_params(params, param_count) ==
    IF param_count # 1 THEN 0
    ELSE IF ~is_finite_number(params[1]) \/ Le(params[1], Fin(0)) THEN 0
    ELSE 1

f_validate_params(params, param_count) ==
    IF param_count # 2 THEN 0
    ELSE IF ~is_finite_number(params[1]) \/ Le(params[1], Fin(0)) THEN 0
    ELSE IF ~is_finite_number(params[2]) \/ Le(params[2], Fin(0)) THEN 0
    ELSE 1

geometric_validate_params(params, param_count) ==
    IF param_count # 1 THEN 0
    ELSE IF ~is_finite_number(params[1]) \/ Le(params[1], Fin(0)) \/ Gt(params[1], Fin(1000))
         THEN 0
    ELSE 1

hypergeometric_validate_params(params, param_count) ==
    IF param_count # 3 THEN 0
    ELSE IF ~is_finite_number(params[1]) \/ ~is_finite_number(params[2])
            \/ ~is_finite_number(params[3]) THEN 0
    ELSE IF ~NonNegInteger(params[1]) \/ ~NonNegInteger(params[2])
            \/ ~NonNegInteger(params[3]) THEN 0
    ELSE IF params[1].v < 1000 THEN 0
    ELSE IF params[2].v > params[1].v THEN 0
    ELSE IF params[3].v > params[1].v THEN 0
    ELSE 1

binomial_validate_params(params, param_count) ==
    IF param_count # 2 THEN 0
    ELSE IF ~is_finite_number(params[1]) \/ ~is_finite_number(params[2]) THEN 0
    ELSE IF Lt(params[1], Fin(0)) \/ ~IsIntegral(params[1]) THEN 0
    ELSE IF Lt(params[2], Fin(0)) \/ Gt(params[2], Fin(1000)) THEN 0
    ELSE 1

negative_binomial_validate_params(params, param_count) ==
    IF param_count # 2 THEN 0
    ELSE IF ~is_finite_number(params[1]) \/ ~is_finite_number(params[2]) THEN 0
    ELSE IF Le(params[1], Fin(0)) \/ ~IsIntegral(params[1]) THEN 0
    ELSE IF Le(params[2], Fin(0)) \/ Gt(params[2], Fin(1000)) THEN 0
    ELSE 1

poisson_validate_params(params, param_count) ==
    IF param_count # 1 THEN 0
    ELSE IF ~is_finite_number(params[1]) \/ Le(params[1], Fin(0)) THEN 0
    ELSE 1

normal_pdf(x, params, param_count) ==
    IF param_count # 2 THEN NaN
    ELSE IF normal_validate_params(params, param_count) = 0 THEN NaN
    ELSE IF ~is_finite_number(x) THEN NaN
    ELSE Sym("normal_pdf")

normal_cdf(x, params, param_count) ==
    IF param_count # 2 THEN NaN
    ELSE IF normal_validate_params(params, param_count) = 0 THEN NaN
    ELSE IF ~is_finite_number(x)
         THEN IF x = NegInf THEN Fin(0) ELSE IF x = PosInf THEN Fin(1000) ELSE NaN
    ELSE Sym("normal_cdf")

exponential_pdf(x, params, param_count) ==
    IF param_count # 1 THEN NaN
    ELSE IF exponential_validate_params(params, param_count) = 0 THEN NaN
    ELSE IF ~is_finite_number(x) THEN (IF isinf(x) THEN Fin(0) ELSE NaN)
    ELSE IF Lt(x, Fin(0)) THEN Fin(0)
    ELSE Sym("exponential_pdf")

exponential_cdf(x, params, param_count) ==
    IF param_count # 1 THEN NaN
    ELSE IF exponential_validate_params(params, param_count) = 0 THEN NaN
    ELSE IF ~is_finite_number(x)
         THEN IF x = NegInf THEN Fin(0) ELSE IF x = PosInf THEN Fin(1000) ELSE NaN
    ELSE IF Lt(x, Fin(0)) THEN Fin(0)
    ELSE Sym("exponential_cdf")

chi_square_pdf(x, params, param_count) ==
    IF param_count # 1 THEN NaN
    ELSE IF chi_square_validate_params(params, param_count) = 0 THEN NaN
    ELSE IF ~is_finite_number(x) THEN (IF isinf(x) THEN Fin(0) ELSE NaN)
    ELSE IF Lt(x, Fin(0)) THEN Fin(0)
    ELSE IF Eq(x, Fin(0))
         THEN IF Lt(params[1], Fin(2000)) THEN PosInf
              ELSE IF Eq(params[1], Fin(2000)) THEN Fin(500)
              ELSE Fin(0)
    ELSE Sym("chi_square_pdf")

\* exp(x) for x >= 0 in thousandths: the power series, each term from the
\* one before, until the term vanishes at this precision
RECURSIVE ExpTerms(_, _, _)
ExpTerms(x, n, term) ==
    IF term = 0 THEN 0 ELSE term + ExpTerms(x, n + 1, (term * x) \div (n * 1000))

Exp(x) == ExpTerms(x, 1, 1000)

\* exp(n * log(x)) for a whole n, in thousandths
RECURSIVE Pow(_, _)
Pow(x, n) == IF n = 0 THEN 1000 ELSE (x * Pow(x, n - 1)) \div 1000

\* exp(log_gamma_function(n)) for a whole n >= 1: (n - 1)!
RECURSIVE GammaOfWhole(_)
GammaOfWhole(n) == IF n <= 1 THEN 1 ELSE (n - 1) * GammaOfWhole(n - 1)

\* the loop `for (int n = 1; n < 200; n++)` of the series: sum after it, from
\* sum = 1.0, term = 1.0, ap = a; a term below the precision ends it
RECURSIVE GammaSeries(_, _, _, _, _)
GammaSeries(x, n, ap, term, sum) ==
    IF n >= 200 THEN sum
    ELSE LET ap1 == ap + 1000
             term1 == (term * x) \div ap1
         IN IF term1 = 0 THEN sum + term1
            ELSE GammaSeries(x, n + 1, ap1, term1, sum + term1)

\* P(a, x) as the code computes it.  The series branch returns
\* exp(a*log(x) - x - log_gamma_function(a) + log(sum)), evaluated here as
\* x^a * sum / (Gamma(a) * e^x) for a whole a; the other finite results
\* are not computed.
regularized_incomplete_gamma_p(a, x) ==
    IF Le(x, Fin(0)) THEN Fin(0)
    ELSE IF Le(a, Fin(0)) THEN NaN
    ELSE IF x.v > a.v + 50000 THEN Fin(1000)
    ELSE IF x.v < a.v + 1000 /\ a.v % 1000 = 0
         THEN Fin((((Pow(x.v, a.v \div 1000) * GammaSeries(x.v, 1, a.v, 1000, 1000))
                        \div 1000) * 1000)
                  \div (GammaOfWhole(a.v \div 1000) * Exp(x.v)))
    ELSE Sym("regularized_incomplete_gamma_p")

chi_square_cdf(x, params, param_count) ==
    IF param_count # 1 THEN NaN
    ELSE IF chi_square_validate_params(params, param_count) = 0 THEN NaN
    ELSE IF ~is_finite_number(x)
         THEN IF x = NegInf THEN Fin(0) ELSE IF x = PosInf THEN Fin(1000) ELSE NaN
    ELSE IF Le(x, Fin(0)) THEN Fin(0)
    ELSE regularized_incomplete_gamma_p(Fin(params[1].v \div 2), Fin(x.v \div 2))

t_pdf(x, params, param_count) ==
    IF param_count # 1 THEN NaN
    ELSE IF t_validate_params(params, param_count) = 0 THEN NaN
    ELSE IF ~is_finite_number(x) THEN (IF isinf(x) THEN Fin(0) ELSE NaN)
    ELSE Sym("t_pdf")

t_cdf(x, params, param_count) ==
    IF param_count # 1 THEN NaN
    ELSE IF t_validate_params(params, param_count) = 0 THEN NaN
    ELSE IF ~is_finite_number(x)
         THEN IF x = NegInf THEN Fin(0) ELSE IF x = PosInf THEN Fin(1000) ELSE NaN
    ELSE IF Eq(x, Fin(0)) THEN Fin(500)
    ELSE Sym("t_cdf")

f_pdf(x, params, param_count) ==
    IF param_count # 2 THEN NaN
    ELSE IF f_validate_params(params, param_count) = 0 THEN NaN
    ELSE IF ~is_finite_number(x) THEN (IF isinf(x) THEN Fin(0) ELSE NaN)
    ELSE IF Le(x, Fin(0)) THEN Fin(0)
    ELSE Sym("f_pdf")

f_cdf(x, params, param_count) ==
    IF param_count # 2 THEN NaN
    ELSE IF f_validate_params(params, param_count) = 0 THEN NaN
    ELSE IF ~is_finite_number(x)
         THEN IF x = NegInf THEN Fin(0) ELSE IF x = PosInf THEN Fin(1000) ELSE NaN
    ELSE IF Le(x, Fin(0)) THEN Fin(0)
    ELSE Sym("f_cdf")

geometric_pdf(x, params, param_count) ==
    IF param_count # 1 THEN NaN
    ELSE IF geometric_validate_params(params, param_count) = 0 THEN NaN
    ELSE IF ~is_finite_number(x) THEN NaN
    ELSE IF Lt(x, Fin(1000)) \/ ~IsIntegral(x) THEN Fin(0)
    ELSE IF Eq(params[1], Fin(1000))
         THEN (IF x.v = 1000 THEN Fin(1000) ELSE Fin(0))
    ELSE Sym("geometric_pdf")

geometric_cdf(x, params, param_count) ==
    IF param_count # 1 THEN NaN
    ELSE IF geometric_validate_params(params, param_count) = 0 THEN NaN
    ELSE IF ~is_finite_number(x)
         THEN IF x = NegInf THEN Fin(0) ELSE IF x = PosInf THEN Fin(1000) ELSE NaN
    ELSE IF Lt(x, Fin(1000)) THEN Fin(0)
    ELSE IF Eq(params[1], Fin(1000)) THEN Fin(1000)
    ELSE Sym("geometric_cdf")

max_int(a, b) == IF a > b THEN a ELSE b
min_int(a, b) == IF a < b THEN a ELSE b

hypergeometric_pdf(x, params, param_count) ==
    IF param_count # 3 THEN NaN
    ELSE IF hypergeometric_validate_params(params, param_count) = 0 THEN NaN
    ELSE IF ~is_finite_number(x) THEN NaN
    ELSE IF Lt(x, Fin(0)) \/ ~IsIntegral(x) THEN Fin(0)
    ELSE LET N == params[1].v
             K == params[2].v
             n == params[3].v
             k_min == max_int(0, n - (N - K))
             k_max == min_int(n, K)
         IN IF x.v < k_min \/ x.v > k_max THEN Fin(0)
            ELSE Sym("hypergeometric_pdf")

hypergeometric_cdf(x, params, param_count) ==
    IF param_count # 3 THEN NaN
    ELSE IF hypergeometric_validate_params(params, param_count) = 0 THEN NaN
    ELSE IF ~is_finite_number(x)
         THEN IF x = NegInf THEN Fin(0) ELSE IF x = PosInf THEN Fin(1000) ELSE NaN
    ELSE LET N == params[1].v
             K == params[2].v
             n == params[3].v
             k == Floor(x)
             k_min == max_int(0, n - (N - K))
             k_max == min_int(n, K)
         IN IF k < k_min THEN Fin(0)
            ELSE IF k >= k_max THEN Fin(1000)
            ELSE Sym("hypergeometric_cdf")

BinomialPdfUnvalidated(x, params, param_count) ==
    IF param_count # 2 THEN NaN
    ELSE IF ~is_finite_number(x) THEN NaN
    ELSE IF Lt(x, Fin(0)) \/ ~IsIntegral(x) THEN Fin(0)
    ELSE IF x.v > params[1].v THEN Fin(0)
    ELSE Sym("binomial_pdf")

binomial_pdf(x, params, param_count) ==
    IF param_count # 2 THEN NaN
    ELSE IF binomial_validate_params(params, param_count) = 0 THEN NaN
    ELSE IF ~is_finite_number(x) THEN NaN
    ELSE IF Lt(x, Fin(0)) \/ ~IsIntegral(x) THEN Fin(0)
    ELSE IF x.v > params[1].v THEN Fin(0)
    ELSE IF Eq(params[2], Fin(0)) THEN (IF x.v = 0 THEN Fin(1000) ELSE Fin(0))
    ELSE IF Eq(params[2], Fin(1000))
         THEN (IF x.v = params[1].v THEN Fin(1000) ELSE Fin(0))
    ELSE Sym("binomial_pdf")

binomial_cdf(x, params, param_count) ==
    IF param_count # 2 THEN NaN
    ELSE IF binomial_validate_params(params, param_count) = 0 THEN NaN
    ELSE IF ~is_finite_number(x)
         THEN IF x = NegInf THEN Fin(0) ELSE IF x = PosInf THEN Fin(1000) ELSE NaN
    ELSE IF Floor(x) < 0 THEN Fin(0)
    ELSE IF Floor(x) >= params[1].v THEN Fin(1000)
    ELSE IF Eq(params[2], Fin(0)) THEN Fin(1000)
    ELSE IF Eq(params[2], Fin(1000)) THEN Fin(0)
    ELSE Sym("binomial_cdf")

negative_binomial_pdf(x, params, param_count) ==
    IF param_count # 2 THEN NaN
    ELSE IF negative_binomial_validate_params(params, param_count) = 0 THEN NaN
    ELSE IF ~is_finite_number(x) THEN NaN
    ELSE IF Lt(x, Fin(0)) \/ ~IsIntegral(x) THEN Fin(0)
    ELSE IF Eq(params[2], Fin(1000)) THEN (IF x.v = 0 THEN Fin(1000) ELSE Fin(0))
    ELSE Sym("negative_binomial_pdf")

negative_binomial_cdf(x, params, param_count) ==
    IF param_count # 2 THEN NaN
    ELSE IF negative_binomial_validate_params(params, param_count) = 0 THEN NaN
    ELSE IF ~is_finite_number(x)
         THEN IF x = NegInf THEN Fin(0) ELSE IF x = PosInf THEN Fin(1000) ELSE NaN
    ELSE IF Floor(x) < 0 THEN Fin(0)
    ELSE IF Eq(params[2], Fin(1000)) THEN Fin(1000)
    ELSE Sym("negative_binomial_cdf")

poisson_pdf(x, params, param_count) ==
    IF param_count # 1 THEN NaN
    ELSE IF poisson_validate_params(params, param_count) = 0 THEN NaN
    ELSE IF ~is_finite_number(x) THEN NaN
    ELSE IF Lt(x, Fin(0)) \/ ~IsIntegral(x) THEN Fin(0)
    ELSE Sym("poisson_pdf")

poisson_cdf(x, params, param_count) ==
    IF param_count # 1 THEN NaN
    ELSE IF poisson_validate_params(params, param_count) = 0 THEN NaN
    ELSE IF ~is_finite_number(x)
         THEN IF x = NegInf THEN Fin(0) ELSE IF x = PosInf THEN Fin(1000) ELSE NaN
    ELSE IF Floor(x) < 0 THEN Fin(0)
    ELSE Sym("poisson_cdf")

\* The kinds outside the registry: Uniform, Gamma, Beta, Weibull, Pareto,
\* Rayleigh
uniform_validate_params(params, param_count) ==
    IF param_count # 2 THEN 0
    ELSE IF ~is_finite_number(params[1]) \/ ~is_finite_number(params[2]) THEN 0
    ELSE IF Ge(params[1], params[2]) THEN 0
    ELSE 1

uniform_pdf(x, params, param_count) ==
    IF param_count # 2 THEN NaN
    ELSE IF uniform_validate_params(params, param_count) = 0 THEN NaN
    ELSE IF ~is_finite_number(x) THEN NaN
    ELSE IF Ge(x, params[1]) /\ Le(x, params[2])
         THEN Fin(1000000 \div (params[2].v - params[1].v))
    ELSE Fin(0)

UniformCdfNaNWhenNotFinite(x, params, param_count) ==
    IF param_count # 2 THEN NaN
    ELSE IF uniform_validate_params(params, param_count) = 0 THEN NaN
    ELSE IF ~is_finite_number(x) THEN NaN
    ELSE IF Lt(x, params[1]) THEN Fin(0)
    ELSE IF Ge(x, params[2]) THEN Fin(1000)
    ELSE Fin(((x.v - params[1].v) * 1000) \div (params[2].v - params[1].v))

uniform_cdf(x, params, param_count) ==
    IF param_count # 2 THEN NaN
    ELSE IF uniform_validate_params(params, param_count) = 0 THEN NaN
    ELSE IF ~is_finite_number(x)
         THEN IF x = NegInf THEN Fin(0) ELSE IF x = PosInf THEN Fin(1000) ELSE NaN
    ELSE IF Lt(x, params[1]) THEN Fin(0)
    ELSE IF Ge(x, params[2]) THEN Fin(1000)
    ELSE Fin(((x.v - params[1].v) * 1000) \div (params[2].v - params[1].v))

gamma_validate_params(params, param_count) ==
    IF param_count # 2 THEN 0
    ELSE IF ~is_finite_number(params[1]) \/ Le(params[1], Fin(0)) THEN 0
    ELSE IF ~is_finite_number(params[2]) \/ Le(params[2], Fin(0)) THEN 0
    ELSE 1

gamma_pdf(x, params, param_count) ==
    IF param_count # 2 THEN NaN
    ELSE IF gamma_validate_params(params, param_count) = 0 THEN NaN
    ELSE IF ~is_finite_number(x) \/ Lt(x, Fin(0)) THEN Fin(0)
    ELSE IF Eq(x, Fin(0)) /\ Eq(params[1], Fin(1000))
         THEN Fin(1000000 \div params[2].v)
    ELSE IF Eq(x, Fin(0)) /\ Gt(params[1], Fin(1000)) THEN Fin(0)
    ELSE IF Eq(x, Fin(0)) /\ Lt(params[1], Fin(1000)) THEN PosInf
    ELSE Sym("gamma_pdf")

gamma_cdf(x, params, param_count) ==
    IF param_count # 2 THEN NaN
    ELSE IF gamma_validate_params(params, param_count) = 0 THEN NaN
    ELSE IF ~is_finite_number(x)
         THEN IF x = NegInf THEN Fin(0) ELSE IF x = PosInf THEN Fin(1000) ELSE NaN
    ELSE IF Lt(x, Fin(0)) THEN Fin(0)
    ELSE Sym("gamma_cdf")

beta_validate_params(params, param_count) ==
    IF param_count # 2 THEN 0
    ELSE IF ~is_finite_number(params[1]) \/ Le(params[1], Fin(0)) THEN 0
    ELSE IF ~is_finite_number(params[2]) \/ Le(params[2], Fin(0)) THEN 0
    ELSE 1

beta_pdf(x, params, param_count) ==
    IF param_count # 2 THEN NaN
    ELSE IF beta_validate_params(params, param_count) = 0 THEN NaN
    ELSE IF ~is_finite_number(x) \/ Lt(x, Fin(0)) \/ Gt(x, Fin(1000)) THEN Fin(0)
    ELSE IF (Eq(x, Fin(0)) /\ Lt(params[1], Fin(1000)))
            \/ (Eq(x, Fin(1000)) /\ Lt(params[2], Fin(1000))) THEN PosInf
    ELSE IF (Eq(x, Fin(0)) /\ Gt(params[1], Fin(1000)))
            \/ (Eq(x, Fin(1000)) /\ Gt(params[2], Fin(1000))) THEN Fin(0)
    ELSE IF (Eq(x, Fin(0)) /\ Eq(params[1], Fin(1000)))
            \/ (Eq(x, Fin(1000)) /\ Eq(params[2], Fin(1000))) THEN params[2]
    ELSE Sym("beta_pdf")

beta_cdf(x, params, param_count) ==
    IF param_count # 2 THEN NaN
    ELSE IF beta_validate_params(params, param_count) = 0 THEN NaN
    ELSE IF ~is_finite_number(x)
         THEN IF x = NegInf THEN Fin(0) ELSE IF x = PosInf THEN Fin(1000) ELSE NaN
    ELSE IF Le(x, Fin(0)) THEN Fin(0)
    ELSE IF Ge(x, Fin(1000)) THEN Fin(1000)
    ELSE Sym("beta_cdf")

weibull_validate_params(params, param_count) ==
    IF param_count # 2 THEN 0
    ELSE IF ~is_finite_number(params[1]) \/ Le(params[1], Fin(0)) THEN 0
    ELSE IF ~is_finite_number(params[2]) \/ Le(params[2], Fin(0)) THEN 0
    ELSE 1

weibull_pdf(x, params, param_count) ==
    IF param_count # 2 THEN NaN
    ELSE IF weibull_validate_params(params, param_count) = 0 THEN NaN
    ELSE IF ~is_finite_number(x) \/ Lt(x, Fin(0)) THEN Fin(0)
    ELSE IF Eq(x, Fin(0)) /\ Eq(params[1], Fin(1000))
         THEN Fin(1000000 \div params[2].v)
    ELSE IF Eq(x, Fin(0)) /\ Gt(params[1], Fin(1000)) THEN Fin(0)
    ELSE IF Eq(x, Fin(0)) /\ Lt(params[1], Fin(1000)) THEN PosInf
    ELSE Sym("weibull_pdf")

weibull_cdf(x, params, param_count) ==
    IF param_count # 2 THEN NaN
    ELSE IF weibull_validate_params(params, param_count) = 0 THEN NaN
    ELSE IF ~is_finite_number(x)
         THEN IF x = NegInf THEN Fin(0) ELSE IF x = PosInf THEN Fin(1000) ELSE NaN
    ELSE IF Lt(x, Fin(0)) THEN Fin(0)
    ELSE Sym("weibull_cdf")

pareto_validate_params(params, param_count) ==
    IF param_count # 2 THEN 0
    ELSE IF ~is_finite_number(params[1]) \/ Le(params[1], Fin(0)) THEN 0
    ELSE IF ~is_finite_number(params[2]) \/ Le(params[2], Fin(0)) THEN 0
    ELSE 1

pareto_pdf(x, params, param_count) ==
    IF param_count # 2 THEN NaN
    ELSE IF pareto_validate_params(params, param_count) = 0 THEN NaN
    ELSE IF ~is_finite_number(x) \/ Lt(x, params[1]) THEN Fin(0)
    ELSE Sym("pareto_pdf")

pareto_cdf(x, params, param_count) ==
    IF param_count # 2 THEN NaN
    ELSE IF pareto_validate_params(params, param_count) = 0 THEN NaN
    ELSE IF ~is_finite_number(x)
         THEN IF x = NegInf THEN Fin(0) ELSE IF x = PosInf THEN Fin(1000) ELSE NaN
    ELSE IF Lt(x, params[1]) THEN Fin(0)
    ELSE Sym("pareto_cdf")

rayleigh_validate_params(params, param_count) ==
    IF param_count # 1 THEN 0
    ELSE IF ~is_finite_number(params[1]) \/ Le(params[1], Fin(0)) THEN 0
    ELSE 1

rayleigh_pdf(x, params, param_count) ==
    IF param_count # 1 THEN NaN
    ELSE IF rayleigh_validate_params(params, param_count) = 0 THEN NaN
    ELSE IF ~is_finite_number(x) \/ Lt(x, Fin(0)) THEN Fin(0)
    ELSE Sym("rayleigh_pdf")

rayleigh_cdf(x, params, param_count) ==
    IF param_count # 1 THEN NaN
    ELSE IF rayleigh_validate_params(params, param_count) = 0 THEN NaN
    ELSE IF ~is_finite_number(x)
         THEN IF x = NegInf THEN Fin(0) ELSE IF x = PosInf THEN Fin(1000) ELSE NaN
    ELSE IF Lt(x, Fin(0)) THEN Fin(0)
    ELSE Sym("rayleigh_cdf")

\* dist->validate_params, dist->pdf and dist->cdf of the distribution_t bound
\* to a registry entry
DistValidateParams(impl, params, param_count) ==
    CASE impl = "normal" -> normal_validate_params(params, param_count)
      [] impl = "exponential" -> exponential_validate_params(params, param_count)
      [] impl = "chi_square" -> chi_square_validate_params(params, param_count)
      [] impl = "t" -> t_validate_params(params, param_count)
      [] impl = "f" -> f_validate_params(params, param_count)
      [] impl = "geometric" -> geometric_validate_params(params, param_count)
      [] impl = "hypergeometric" -> hypergeometric_validate_params(params, param_count)
      [] impl = "binomial" -> binomial_validate_params(params, param_count)
      [] impl = "negative_binomial" -> negative_binomial_validate_params(params, param_count)
      [] impl = "poisson" -> poisson_validate_params(params, param_count)
      [] impl = "uniform" -> uniform_validate_params(params, param_count)
      [] impl = "gamma" -> gamma_validate_params(params, param_count)
      [] impl = "beta" -> beta_validate_params(params, param_count)
      [] impl = "weibull" -> weibull_validate_params(params, param_count)
      [] impl = "pareto" -> pareto_validate_params(params, param_count)
      [] impl = "rayleigh" -> rayleigh_validate_params(params, param_count)

DistPdf(impl, x, params, param_count) ==
    CASE impl = "normal" -> normal_pdf(x, params, param_count)
      [] impl = "exponential" -> exponential_pdf(x, params, param_count)
      [] impl = "chi_square" -> chi_square_pdf(x, params, param_count)
      [] impl = "t" -> t_pdf(x, params, param_count)
      [] impl = "f" -> f_pdf(x, params, param_count)
      [] impl = "geometric" -> geometric_pdf(x, params, param_count)
      [] impl = "hypergeometric" -> hypergeometric_pdf(x, params, param_count)
      [] impl = "binomial" -> binomial_pdf(x, params, param_count)
      [] impl = "negative_binomial" -> negative_binomial_pdf(x, params, param_count)
      [] impl = "poisson" -> poisson_pdf(x, params, param_count)
      [] impl = "uniform" -> uniform_pdf(x, params, param_count)
      [] impl = "gamma" -> gamma_pdf(x, params, param_count)
      [] impl = "beta" -> beta_pdf(x, params, param_count)
      [] impl = "weibull" -> weibull_pdf(x, params, param_count)
      [] impl = "pareto" -> pareto_pdf(x, params, param_count)
      [] impl = "rayleigh" -> rayleigh_pdf(x, params, param_count)

DistCdf(impl, x, params, param_count) ==
    CASE impl = "normal" -> normal_cdf(x, params, param_count)
      [] impl = "exponential" -> exponential_cdf(x, params, param_count)
      [] impl = "chi_square" -> chi_square_cdf(x, params, param_count)
      [] impl = "t" -> t_cdf(x, params, param_count)
      [] impl = "f" -> f_cdf(x, params, param_count)
      [] impl = "geometric" -> geometric_cdf(x, params, param_count)
      [] impl = "hypergeometric" -> hypergeometric_cdf(x, params, param_count)
      [] impl = "binomial" -> binomial_cdf(x, params, param_count)
      [] impl = "negative_binomial" -> negative_binomial_cdf(x, params, param_count)
      [] impl = "poisson" -> poisson_cdf(x, params, param_count)
      [] impl = "uniform" -> uniform_cdf(x, params, param_count)
      [] impl = "gamma" -> gamma_cdf(x, params, param_count)
      [] impl = "beta" -> beta_cdf(x, params, param_count)
      [] impl = "weibull" -> weibull_cdf(x, params, param_count)
      [] impl = "pareto" -> pareto_cdf(x, params, param_count)
      [] impl = "rayleigh" -> rayleigh_cdf(x, params, param_count)

(***************************************************************************)
(* Calculation Orchestrator                                                *)
(***************************************************************************)
CALC_SUCCESS == 0
CALC_ERROR_INVALID_DISTRIBUTION == -1
CALC_ERROR_INVALID_PARAMETERS == -2
CALC_ERROR_INVALID_INPUT == -3
CALC_ERROR_CALCULATION_FAILED == -4
CALC_ERROR_STATE_INVALID == -5

\* a calculation_result_t after memset(result, 0, ...); a NULL message is "NULL"
ZeroResult ==
    [pdf_result |-> Fin(0), cdf_result |-> Fin(0), input_value |-> Fin(0),
     success |-> 0, error_message |-> "NULL"]

orchestrator_get_error_message(error) ==
    CASE error = CALC_SUCCESS -> "Success"
      [] error = CALC_ERROR_INVALID_DISTRIBUTION -> "Invalid distribution type"
      [] error = CALC_ERROR_INVALID_PARAMETERS -> "Invalid parameters"
      [] error = CALC_ERROR_INVALID_INPUT -> "Invalid input value"
      [] error = CALC_ERROR_CALCULATION_FAILED -> "Calculation failed"
      [] error = CALC_ERROR_STATE_INVALID -> "Invalid state"
      [] OTHER -> "Unknown error"

\* the loop over i = from .. param_count-1 of
\* orchestrator_validate_calculation_request: TRUE when every
\* validate_single_parameter returns VALIDATION_SUCCESS
RECURSIVE SingleParameterLoop(_, _, _, _)
SingleParameterLoop(distribution, parameters, param_count, i) ==
    IF i >= param_count
    THEN TRUE
    ELSE IF validate_single_parameter(distribution, i, parameters[i + 1]).error_code
              # VALIDATION_SUCCESS
         THEN FALSE
         ELSE SingleParameterLoop(distribution, parameters, param_count, i + 1)

orchestrator_validate_calculation_request(req) ==
    IF ~is_valid_distribution_type(req.distribution)
    THEN CALC_ERROR_INVALID_DISTRIBUTION
    ELSE IF get_distribution_model(req.distribution) = NullEntry
    THEN CALC_ERROR_INVALID_DISTRIBUTION
    ELSE IF req.param_count # get_distribution_model(req.distribution).param_count
    THEN CALC_ERROR_INVALID_PARAMETERS
    ELSE IF ~SingleParameterLoop(req.distribution, req.parameters, req.param_count, 0)
    THEN CALC_ERROR_INVALID_PARAMETERS
    ELSE CALC_SUCCESS

\* an input check without the test for discrete kinds
InputCheckFiniteOnly(input_value, distribution) ==
    IF isnan(input_value) \/ isinf(input_value) THEN -1
    ELSE IF get_distribution_model(distribution) = NullEntry THEN -1
    ELSE 0

\* 0 if the input value is accepted for the kind, -1 if it is rejected
orchestrator_validate_input_value(input_value, distribution) ==
    IF isnan(input_value) \/ isinf(input_value) THEN -1
    ELSE IF get_distribution_model(distribution) = NullEntry THEN -1
    ELSE IF get_distribution_model(distribution).category = DISTRIBUTION_DISCRETE
            /\ (Lt(input_value, Fin(0)) \/ ~IsIntegral(input_value))
    THEN -1
    ELSE 0

\* a result check that tests isinf alone
ResultNotFiniteInfOnly(value) == isinf(value)

\* isnan(v) || isinf(v) on a pdf or cdf result
ResultNotFinite(value) == isnan(value) \/ isinf(value)

\* dist->validate_params(params, param_count) != 0, the condition under which
\* the orchestrator rejects the parameters
DistRejectsParams(impl, params, param_count) ==
    DistValidateParams(impl, params, param_count) # 0

Outcome(rc, result, pdf_called, cdf_called) ==
    [rc |-> rc, result |-> result, pdf_called |-> pdf_called, cdf_called |-> cdf_called]

Failure(result, message) == [result EXCEPT !.success = 0, !.error_message = message]

\* lines 99-127 of orchestrator_calculate_with_request, pdf and cdf being the
\* values dist->pdf and dist->cdf return; cdf is called only if pdf is finite
CheckResults(r0, pdf, cdf) ==
    IF ResultNotFinite(pdf)
    THEN Outcome(CALC_ERROR_CALCULATION_FAILED,
                 Failure([r0 EXCEPT !.pdf_result = pdf], "PDF calculation failed"),
                 TRUE, FALSE)
    ELSE IF ResultNotFinite(cdf)
    THEN Outcome(CALC_ERROR_CALCULATION_FAILED,
                 Failure([r0 EXCEPT !.pdf_result = pdf, !.cdf_result = cdf],
                         "CDF calculation failed"),
                 TRUE, TRUE)
    ELSE Outcome(CALC_SUCCESS,
                 [r0 EXCEPT !.pdf_result = pdf, !.cdf_result = cdf,
                            !.success = 1, !.error_message = "NULL"],
                 TRUE, TRUE)

\* lines 74-127 of orchestrator_calculate_with_request, dist being the
\* implementation get_distribution returned
CheckAndDispatch(req, r0, dist) ==
    IF dist = "NULL"
    THEN Outcome(CALC_ERROR_INVALID_DISTRIBUTION,
                 Failure(r0, "Distribution implementation not found"), FALSE, FALSE)
    ELSE IF DistRejectsParams(dist, req.parameters, req.param_count)
    THEN Outcome(CALC_ERROR_INVALID_PARAMETERS,
                 Failure(r0, "Invalid parameters for distribution"), FALSE, FALSE)
    ELSE IF orchestrator_validate_input_value(req.input_value, req.distribution) # 0
    THEN Outcome(CALC_ERROR_INVALID_INPUT,
                 Failure(r0, "Invalid input value for distribution"), FALSE, FALSE)
    ELSE CheckResults(r0,
                      DistPdf(dist, req.input_value, req.parameters, req.param_count),
                      DistCdf(dist, req.input_value, req.parameters, req.param_count))

\* lines 66-127 of orchestrator_calculate_with_request, validation_result being
\* the value orchestrator_validate_calculation_request returned
CheckRequest(req, r0, validation_result) ==
    IF validation_result # CALC_SUCCESS
    THEN Outcome(validation_result,
                 Failure(r0, orchestrator_get_error_message(validation_result)),
                 FALSE, FALSE)
    ELSE CheckAndDispatch(req, r0, get_distribution(req.distribution))

\* returns the return code, the result structure and whether dist->pdf and
\* dist->cdf were invoked
orchestrator_calculate_with_request(req) ==
    CheckRequest(req, [ZeroResult EXCEPT !.input_value = req.input_value],
                 orchestrator_validate_calculation_request(req))

(***************************************************************************)
(* The values the callers are modelled to pass                             *)
(***************************************************************************)
\* kinds 0 .. DIST_COUNT + ExtraKinds: every registered kind, DIST_COUNT
\* itself and ExtraKinds values beyond it
ExtraKinds == 1
Kinds == 0..(DIST_COUNT + ExtraKinds)
Counts == 0..MAX_PARAMETERS

Slot1Values == {NaN, Fin(0), Fin(500), Fin(1000), Fin(1500), Fin(2000),
                Fin(3000), Fin(10000000), Fin(20000000)}
Slot2Values == {PosInf, Fin(-1000), Fin(0), Fin(1), Fin(500), Fin(999), Fin(1000),
                Fin(1500), Fin(3000)}
Slot3Values == {NaN, Fin(0), Fin(1000), Fin(2000), Fin(4000)}
Slot4Values == {Fin(0)}
ParameterArrays ==
    {<<a, b, c, d>> : a \in Slot1Values, b \in Slot2Values,
                      c \in Slot3Values, d \in Slot4Values}
InputValues == {NaN, PosInf, NegInf, Fin(-1000), Fin(0), Fin(1000), Fin(1500)}

NoCall == [call |-> "none", param_index |-> 0, result |-> clear_validation_result]
NoRequest ==
    [distribution |-> 0, parameters |-> <<Fin(0), Fin(0), Fin(0), Fin(0)>>,
     param_count |-> 0, input_value |-> Fin(0)]
NoOutcome == Outcome(CALC_SUCCESS, ZeroResult, FALSE, FALSE)

(***************************************************************************)
(* Specification of the Parameter Validator: one call on one argument list *)
(***************************************************************************)
ValidatorArguments ==
    [distribution : Kinds, parameters : ParameterArrays, param_count : Counts]

ValidateDistributionParameters ==
    /\ vpc = "ready"
    /\ vout' = [call |-> "validate_distribution_parameters", param_index |-> 0,
                result |-> validate_distribution_parameters(
                               vin.distribution, vin.parameters, vin.param_count)]
    /\ vpc' = "done"
    /\ UNCHANGED <<vin, reqVars, appVars, regVars, distVars, numVars, histVars, jsVars>>

ValidateSingleParameter ==
    /\ vpc = "ready"
    /\ \E i \in 0..(MAX_PARAMETERS - 1) :
         vout' = [call |-> "validate_single_parameter", param_index |-> i,
                  result |-> validate_single_parameter(
                                 vin.distribution, i, vin.parameters[i + 1])]
    /\ vpc' = "done"
    /\ UNCHANGED <<vin, reqVars, appVars, regVars, distVars, numVars, histVars, jsVars>>

ValidateParameterRange ==
    /\ vpc = "ready"
    /\ \E i \in 0..(MAX_PARAMETERS - 1) :
         vout' = [call |-> "validate_parameter_range", param_index |-> i,
                  result |-> validate_parameter_range(
                                 vin.distribution, i, vin.parameters[i + 1])]
    /\ vpc' = "done"
    /\ UNCHANGED <<vin, reqVars, appVars, regVars, distVars, numVars, histVars, jsVars>>

\* the variables of the other specifications take no part here and hold the
\* placeholder 0
InitValidator ==
    /\ vin \in ValidatorArguments
    /\ vout = NoCall
    /\ vpc = "ready"
    /\ request = NoRequest
    /\ outcome = NoOutcome
    /\ rpc = "idle"
    /\ state = 0
    /\ op = 0
    /\ adds = 0
    /\ reg = 0
    /\ thr = 0
    /\ darg = 0
    /\ dres = 0
    /\ num = 0
    /\ hist = 0
    /\ bridge = 0
    /\ kbd = 0
    /\ lru = 0

NextValidator ==
    \/ ValidateDistributionParameters
    \/ ValidateSingleParameter
    \/ ValidateParameterRange

SpecValidator == InitValidator /\ [][NextValidator]_vars

(***************************************************************************)
(* Specification of orchestrator_calculate_with_request: one call on one   *)
(* request                                                                 *)
(***************************************************************************)
Requests ==
    [distribution : Kinds, parameters : ParameterArrays, param_count : Counts,
     input_value : InputValues]

CalculateWithRequest ==
    /\ rpc = "ready"
    /\ outcome' = orchestrator_calculate_with_request(request)
    /\ rpc' = "done"
    /\ UNCHANGED <<request, valVars, appVars, regVars, distVars, numVars, histVars, jsVars>>

InitRequest ==
    /\ request \in Requests
    /\ outcome = NoOutcome
    /\ rpc = "ready"
    /\ vin = [distribution |-> 0, parameters |-> NoRequest.parameters, param_count |-> 0]
    /\ vout = NoCall
    /\ vpc = "idle"
    /\ state = 0
    /\ op = 0
    /\ adds = 0
    /\ reg = 0
    /\ thr = 0
    /\ darg = 0
    /\ dres = 0
    /\ num = 0
    /\ hist = 0
    /\ bridge = 0
    /\ kbd = 0
    /\ lru = 0

NextRequest == CalculateWithRequest

SpecRequest == InitRequest /\ [][NextRequest]_vars

(***************************************************************************)
(* Calculation history and application state                               *)
(***************************************************************************)
MAX_HISTORY_ENTRIES == 10

\* a calculation_entry_t of zero bytes
ZeroEntry ==
    [timestamp |-> 0, distribution_type |-> 0,
     parameters |-> <<Fin(0), Fin(0), Fin(0), Fin(0)>>,
     input_value |-> Fin(0), pdf_result |-> Fin(0), cdf_result |-> Fin(0)]

\* entries[k + 1] is the C entries[k]
history_init ==
    [entries |-> [k \in 1..MAX_HISTORY_ENTRIES |-> ZeroEntry], count |-> 0, head |-> 0]

history_add_entry(history, entry) ==
    [entries |-> [history.entries EXCEPT ![history.head + 1] = entry],
     head |-> (history.head + 1) % MAX_HISTORY_ENTRIES,
     count |-> IF history.count < MAX_HISTORY_ENTRIES
               THEN history.count + 1 ELSE history.count]

history_clear(history) ==
    [entries |-> [k \in 1..MAX_HISTORY_ENTRIES |-> ZeroEntry], count |-> 0, head |-> 0]

\* the storage of an app_state_t before app_state_init has run
UninitializedState ==
    [current_distribution |-> 0, current_category |-> DISTRIBUTION_CONTINUOUS,
     current_parameters |-> <<Fin(0), Fin(0), Fin(0), Fin(0)>>,
     parameter_count |-> 0, history |-> history_init, is_initialized |-> 0]

app_state_init(s) ==
    [current_distribution |-> DIST_NORMAL,
     current_category |-> DISTRIBUTION_CONTINUOUS,
     parameter_count |-> IF get_distribution_model(DIST_NORMAL) # NullEntry
                         THEN get_distribution_model(DIST_NORMAL).param_count ELSE 0,
     current_parameters |-> <<Fin(0), Fin(0), Fin(0), Fin(0)>>,
     history |-> history_init,
     is_initialized |-> 1]

app_state_keep_parameters(s) == s

app_state_clear_parameters(s) ==
    IF s.is_initialized = 0 THEN s
    ELSE [s EXCEPT !.current_parameters = <<Fin(0), Fin(0), Fin(0), Fin(0)>>]

\* each of the following returns <<return code, state afterwards>>
app_state_set_distribution(s, distribution) ==
    IF s.is_initialized = 0 THEN <<-1, s>>
    ELSE IF ~is_valid_distribution_type(distribution) THEN <<-1, s>>
    ELSE IF get_distribution_model(distribution) = NullEntry THEN <<-1, s>>
    ELSE <<0, app_state_clear_parameters(
                  [s EXCEPT !.current_distribution = distribution,
                            !.current_category =
                                get_distribution_model(distribution).category,
                            !.parameter_count =
                                get_distribution_model(distribution).param_count])>>

app_state_set_parameter(s, param_index, value) ==
    LET model == get_distribution_model(s.current_distribution)
    IN IF s.is_initialized = 0 THEN <<-1, s>>
       ELSE IF param_index >= MAX_PARAMETERS THEN <<-1, s>>
       ELSE IF model = NullEntry \/ param_index >= model.param_count THEN <<-1, s>>
       ELSE IF Lt(value, model.param_ranges[param_index + 1][1])
               \/ Gt(value, model.param_ranges[param_index + 1][2])
       THEN <<-1, s>>
       ELSE <<0, [s EXCEPT !.current_parameters[param_index + 1] = value]>>

\* entry.timestamp is never assigned: the entry carries whatever the stack
\* held, passed here as timestamp
app_state_add_calculation(s, input_value, pdf_result, cdf_result, timestamp) ==
    IF s.is_initialized = 0 THEN <<-1, s>>
    ELSE <<0, [s EXCEPT !.history =
                 history_add_entry(s.history,
                     [timestamp |-> timestamp,
                      distribution_type |-> s.current_distribution,
                      parameters |-> s.current_parameters,
                      input_value |-> input_value,
                      pdf_result |-> pdf_result,
                      cdf_result |-> cdf_result])]>>

app_state_get_parameter_count(s) == IF s.is_initialized = 0 THEN 0 ELSE s.parameter_count

app_state_get_distribution(s) ==
    IF s.is_initialized = 0 THEN DIST_NORMAL ELSE s.current_distribution

app_state_validate(s) ==
    LET model == get_distribution_model(s.current_distribution)
    IN IF s.is_initialized = 0 THEN -1
       ELSE IF ~is_valid_distribution_type(s.current_distribution) THEN -1
       ELSE IF model = NullEntry \/ model.category # s.current_category THEN -1
       ELSE IF s.parameter_count # model.param_count THEN -1
       ELSE 0

app_state_reset(s) == app_state_init([s EXCEPT !.history = history_clear(s.history)])

\* <<return code, request>>; the slots of request.parameters past param_count
\* are not written by the memcpy and are not read afterwards
orchestrator_prepare_calculation_from_state(s) ==
    IF s.is_initialized = 0
    THEN <<CALC_ERROR_STATE_INVALID, NoRequest>>
    ELSE <<CALC_SUCCESS,
           [distribution |-> app_state_get_distribution(s),
            param_count |-> app_state_get_parameter_count(s),
            parameters |-> [k \in 1..MAX_PARAMETERS |->
                              IF k <= app_state_get_parameter_count(s)
                              THEN s.current_parameters[k] ELSE Fin(0)],
            input_value |-> Fin(0)]>>

\* <<return code, state afterwards>>
orchestrator_update_state_with_result(s, result, timestamp) ==
    IF result.success = 0 THEN <<-1, s>>
    ELSE app_state_add_calculation(s, result.input_value, result.pdf_result,
                                   result.cdf_result, timestamp)

\* lines 43-48 of orchestrator_calculate: the history is updated when the
\* calculation returned CALC_SUCCESS with result->success set
UpdateOnSuccess(s, calc, timestamp) ==
    [rc |-> calc.rc,
     result |-> calc.result,
     state |-> IF calc.rc = CALC_SUCCESS /\ calc.result.success # 0
               THEN orchestrator_update_state_with_result(s, calc.result, timestamp)[2]
               ELSE s]

\* [rc, result, state]: the return code, the caller's (zeroed) result structure
\* afterwards and the state afterwards
orchestrator_calculate(s, input_value, timestamp) ==
    IF app_state_validate(s) # 0
    THEN [rc |-> CALC_ERROR_STATE_INVALID,
          result |-> Failure(ZeroResult, "Invalid application state"),
          state |-> s]
    ELSE IF orchestrator_prepare_calculation_from_state(s)[1] # 0
    THEN [rc |-> orchestrator_prepare_calculation_from_state(s)[1],
          result |-> Failure(ZeroResult, "Failed to prepare calculation request"),
          state |-> s]
    ELSE UpdateOnSuccess(s,
             orchestrator_calculate_with_request(
                 [orchestrator_prepare_calculation_from_state(s)[2]
                     EXCEPT !.input_value = input_value]),
             timestamp)

(***************************************************************************)
(* Specification of the application state: the public state operations and *)
(* orchestrator_calculate, called in any order                             *)
(***************************************************************************)
\* at most MaxAdds direct calls of app_state_add_calculation are followed
MaxAdds == 1
StateValues == {Fin(500), Fin(1000)}
StateInputs == {NaN, Fin(-1000), Fin(0), Fin(1000)}
Timestamps == {0, 7}

Call(name, rc, input_value, result) ==
    [name |-> name, rc |-> rc, input_value |-> input_value, result |-> result]

AppStateInit ==
    /\ state' = app_state_init(state)
    /\ op' = Call("app_state_init", 0, Fin(0), ZeroResult)
    /\ UNCHANGED <<adds, valVars, reqVars, regVars, distVars, numVars, histVars, jsVars>>

AppStateSetDistribution ==
    /\ \E d \in Kinds :
         LET r == app_state_set_distribution(state, d)
         IN /\ state' = r[2]
            /\ op' = Call("app_state_set_distribution", r[1], Fin(0), ZeroResult)
    /\ UNCHANGED <<adds, valVars, reqVars, regVars, distVars, numVars, histVars, jsVars>>

AppStateSetParameter ==
    /\ \E i \in 0..MAX_PARAMETERS, v \in StateValues :
         LET r == app_state_set_parameter(state, i, v)
         IN /\ state' = r[2]
            /\ op' = Call("app_state_set_parameter", r[1], Fin(0), ZeroResult)
    /\ UNCHANGED <<adds, valVars, reqVars, regVars, distVars, numVars, histVars, jsVars>>

AppStateAddCalculation ==
    /\ adds < MaxAdds
    /\ \E t \in Timestamps :
         LET r == app_state_add_calculation(state, Fin(1000), Fin(250), Fin(500), t)
         IN /\ state' = r[2]
            /\ op' = Call("app_state_add_calculation", r[1], Fin(1000), ZeroResult)
    /\ adds' = adds + 1
    /\ UNCHANGED <<valVars, reqVars, regVars, distVars, numVars, histVars, jsVars>>

\* the state and the call record after orchestrator_calculate returned r
Returned(r, x) ==
    /\ state' = r.state
    /\ op' = Call("orchestrator_calculate", r.rc, x, r.result)

OrchestratorCalculate ==
    /\ \E x \in StateInputs, t \in Timestamps :
         Returned(orchestrator_calculate(state, x, t), x)
    /\ UNCHANGED <<adds, valVars, reqVars, regVars, distVars, numVars, histVars, jsVars>>

AppStateReset ==
    /\ state' = app_state_reset(state)
    /\ op' = Call("app_state_reset", 0, Fin(0), ZeroResult)
    /\ UNCHANGED <<adds, valVars, reqVars, regVars, distVars, numVars, histVars, jsVars>>

InitState ==
    /\ state = UninitializedState
    /\ op = Call("none", 0, Fin(0), ZeroResult)
    /\ adds = 0
    /\ vin = [distribution |-> 0, parameters |-> NoRequest.parameters, param_count |-> 0]
    /\ vout = NoCall
    /\ vpc = "idle"
    /\ request = NoRequest
    /\ outcome = NoOutcome
    /\ rpc = "idle"
    /\ reg = 0
    /\ thr = 0
    /\ darg = 0
    /\ dres = 0
    /\ num = 0
    /\ hist = 0
    /\ bridge = 0
    /\ kbd = 0
    /\ lru = 0

NextState ==
    \/ AppStateInit
    \/ AppStateSetDistribution
    \/ AppStateSetParameter
    \/ AppStateAddCalculation
    \/ OrchestratorCalculate
    \/ AppStateReset

SpecState == InitState /\ [][NextState]_vars

(***************************************************************************)
(* The registry as shared static storage, and its callers                  *)
(*                                                                         *)
(* reg is the static storage: distribution_impl[k + 1] is the              *)
(* distribution_impl field of registry_entries[k] ("NULL" before it is     *)
(* bound), continuous_distributions and discrete_distributions are the     *)
(* category arrays (an element is the index k + 1 of the entry it points   *)
(* to, 0 for a null pointer), registry_initialized is the flag and model   *)
(* is the static distribution_model_t of get_distribution_model.  The      *)
(* other fields of the entries are never written and are read from         *)
(* registry_entries.  thr[c] is the position and the locals of caller c.   *)
(***************************************************************************)
Callers == {"a", "b"}

CATEGORY_SLOTS == 5

\* a distribution_model_t of zero bytes
ZeroModel ==
    [distribution_id |-> 0, name |-> "NULL", param_count |-> 0,
     category |-> DISTRIBUTION_CONTINUOUS,
     param_ranges |-> <<Unused, Unused, Unused, Unused>>]

\* the static storage at program start
StaticStorage ==
    [distribution_impl |-> [k \in 1..DIST_COUNT |-> "NULL"],
     continuous_distributions |-> [k \in 1..CATEGORY_SLOTS |-> 0],
     discrete_distributions |-> [k \in 1..CATEGORY_SLOTS |-> 0],
     registry_initialized |-> 0,
     continuous_count |-> 5,
     discrete_count |-> 5,
     total_count |-> DIST_COUNT,
     model |-> ZeroModel]

\* the switch of initialize_registry: the implementation bound to a type
BoundImplementation(type) ==
    CASE type = DIST_NORMAL -> "normal"
      [] type = DIST_EXPONENTIAL -> "exponential"
      [] type = DIST_CHI_SQUARE -> "chi_square"
      [] type = DIST_T_DISTRIBUTION -> "t"
      [] type = DIST_F_DISTRIBUTION -> "f"
      [] type = DIST_GEOMETRIC -> "geometric"
      [] type = DIST_HYPERGEOMETRIC -> "hypergeometric"
      [] type = DIST_BINOMIAL -> "binomial"
      [] type = DIST_NEGATIVE_BINOMIAL -> "negative_binomial"
      [] type = DIST_POISSON -> "poisson"
      [] OTHER -> "NULL"

\* the locals of a caller outside any registry function
Idle ==
    [pc |-> "idle", fn |-> "none", type |-> 0, category |-> 0, i |-> 0,
     continuous_idx |-> 0, discrete_idx |-> 0, entry |-> 0,
     count |-> 0, list |-> <<>>, read |-> ZeroModel]

\* a caller enters one of the registry functions, each of which starts with
\* initialize_registry(); the function and its argument decide nothing before
\* initialize_registry has returned and are drawn there
EnterRegistry(c) ==
    /\ thr[c].pc = "idle"
    /\ thr' = [thr EXCEPT ![c] = [Idle EXCEPT !.pc = "initialize_registry"]]
    /\ UNCHANGED <<reg, valVars, reqVars, appVars, distVars, numVars, histVars, jsVars>>

\* if (registry_initialized) return;
InitializeCheck(c) ==
    /\ thr[c].pc = "initialize_registry"
    /\ thr' = [thr EXCEPT ![c].pc =
                  IF reg.registry_initialized # 0 THEN "initialized" ELSE "bind",
                            ![c].i = 0]
    /\ UNCHANGED <<reg, valVars, reqVars, appVars, distVars, numVars, histVars, jsVars>>

\* one iteration of the loop that binds the implementations
InitializeBind(c) ==
    /\ thr[c].pc = "bind"
    /\ LET i == thr[c].i
       IN /\ reg' = [reg EXCEPT !.distribution_impl[i + 1] =
                        BoundImplementation(registry_entries[i + 1].type)]
          /\ thr' = [thr EXCEPT
                        ![c].i = IF i + 1 < reg.total_count THEN i + 1 ELSE 0,
                        ![c].pc = IF i + 1 < reg.total_count THEN "bind" ELSE "populate",
                        ![c].continuous_idx = 0,
                        ![c].discrete_idx = 0]
    /\ UNCHANGED <<valVars, reqVars, appVars, distVars, numVars, histVars, jsVars>>

\* an element written to a category array (with five entries of each
\* category the index never reaches CATEGORY_SLOTS)
Stored(array, idx, pointer) ==
    IF idx < CATEGORY_SLOTS THEN [array EXCEPT ![idx + 1] = pointer] ELSE array

\* a populate step that files every entry as continuous
PopulateAllContinuous(storage, i, continuous_idx, discrete_idx) ==
    [storage |-> [storage EXCEPT !.continuous_distributions =
                     Stored(storage.continuous_distributions, continuous_idx, i + 1)],
     continuous_idx |-> continuous_idx + 1,
     discrete_idx |-> discrete_idx]

\* the body of the loop that populates the category arrays
PopulateEntry(storage, i, continuous_idx, discrete_idx) ==
    IF registry_entries[i + 1].category = DISTRIBUTION_CONTINUOUS
    THEN [storage |-> [storage EXCEPT !.continuous_distributions =
                          Stored(storage.continuous_distributions, continuous_idx, i + 1)],
          continuous_idx |-> continuous_idx + 1,
          discrete_idx |-> discrete_idx]
    ELSE [storage |-> [storage EXCEPT !.discrete_distributions =
                          Stored(storage.discrete_distributions, discrete_idx, i + 1)],
          continuous_idx |-> continuous_idx,
          discrete_idx |-> discrete_idx + 1]

Populated(c, r) ==
    /\ reg' = r.storage
    /\ thr' = [thr EXCEPT
                  ![c].i = thr[c].i + 1,
                  ![c].continuous_idx = r.continuous_idx,
                  ![c].discrete_idx = r.discrete_idx,
                  ![c].pc = IF thr[c].i + 1 < reg.total_count
                            THEN "populate" ELSE "set_initialized"]

\* one iteration of the loop that populates the category arrays
InitializePopulate(c) ==
    /\ thr[c].pc = "populate"
    /\ Populated(c, PopulateEntry(reg, thr[c].i, thr[c].continuous_idx,
                                  thr[c].discrete_idx))
    /\ UNCHANGED <<valVars, reqVars, appVars, distVars, numVars, histVars, jsVars>>

\* registry_initialized = 1;
InitializeDone(c) ==
    /\ thr[c].pc = "set_initialized"
    /\ reg' = [reg EXCEPT !.registry_initialized = 1]
    /\ thr' = [thr EXCEPT ![c].pc = "initialized"]
    /\ UNCHANGED <<valVars, reqVars, appVars, distVars, numVars, histVars, jsVars>>

\* a lookup that indexes the table by the type, one entry too low
LookupOffByOne(storage, type) ==
    IF type >= DIST_COUNT THEN 0 ELSE type

\* registry_get_distribution after initialize_registry: the index k + 1 of
\* the first entry of the type, 0 for NULL
Lookup(storage, type) ==
    IF type >= DIST_COUNT
    THEN 0
    ELSE LET hits == {k \in 1..storage.total_count : registry_entries[k].type = type}
         IN IF hits = {} THEN 0
            ELSE CHOOSE k \in hits : \A j \in hits : k <= j

\* registry_get_distribution(type), after initialize_registry
RegistryGetDistribution(c) ==
    /\ thr[c].pc = "initialized"
    /\ \E type \in Kinds :
         thr' = [thr EXCEPT ![c].fn = "registry_get_distribution",
                            ![c].type = type,
                            ![c].entry = Lookup(reg, type),
                            ![c].pc = "returned"]
    /\ UNCHANGED <<reg, valVars, reqVars, appVars, distVars, numVars, histVars, jsVars>>

\* the count registry_get_distributions_by_category stores through count
CategoryCount(storage, category) ==
    IF category = DISTRIBUTION_CONTINUOUS THEN storage.continuous_count
    ELSE IF category = DISTRIBUTION_DISCRETE THEN storage.discrete_count
    ELSE 0

\* the array registry_get_distributions_by_category returns (<<>> for NULL)
CategoryList(storage, category) ==
    IF category = DISTRIBUTION_CONTINUOUS THEN storage.continuous_distributions
    ELSE IF category = DISTRIBUTION_DISCRETE THEN storage.discrete_distributions
    ELSE <<>>

Categories == {DISTRIBUTION_CONTINUOUS, DISTRIBUTION_DISCRETE, DISTRIBUTION_DISCRETE + 1}

\* registry_get_distributions_by_category(category, &count), after
\* initialize_registry
RegistryGetDistributionsByCategory(c) ==
    /\ thr[c].pc = "initialized"
    /\ \E category \in Categories :
         thr' = [thr EXCEPT ![c].fn = "registry_get_distributions_by_category",
                            ![c].category = category,
                            ![c].count = CategoryCount(reg, category),
                            ![c].list = CategoryList(reg, category),
                            ![c].pc = "returned"]
    /\ UNCHANGED <<reg, valVars, reqVars, appVars, distVars, numVars, histVars, jsVars>>

\* the kinds the callers ask get_distribution_model about
ModelKinds == {DIST_NORMAL, DIST_BINOMIAL, DIST_COUNT}

\* get_distribution_model(type): the lookup and the test of the entry
GetDistributionModel(c) ==
    /\ thr[c].pc = "initialized"
    /\ \E type \in ModelKinds :
         thr' = [thr EXCEPT ![c].fn = "get_distribution_model",
                            ![c].type = type,
                            ![c].entry = Lookup(reg, type),
                            ![c].pc = IF Lookup(reg, type) = 0
                                      THEN "returned" ELSE "model_id"]
    /\ UNCHANGED <<reg, valVars, reqVars, appVars, distVars, numVars, histVars, jsVars>>

\* the assignments to the static model, one statement each
ModelWrite(c, at, field, value, next) ==
    /\ thr[c].pc = at
    /\ reg' = [reg EXCEPT !.model[field] = value]
    /\ thr' = [thr EXCEPT ![c].pc = next]
    /\ UNCHANGED <<valVars, reqVars, appVars, distVars, numVars, histVars, jsVars>>

ModelWriteId(c) ==
    ModelWrite(c, "model_id", "distribution_id", thr[c].type, "model_name")
ModelWriteName(c) ==
    ModelWrite(c, "model_name", "name", registry_entries[thr[c].entry].name,
               "model_param_count")
ModelWriteParamCount(c) ==
    ModelWrite(c, "model_param_count", "param_count",
               registry_entries[thr[c].entry].param_count, "model_category")
ModelWriteCategory(c) ==
    ModelWrite(c, "model_category", "category",
               registry_entries[thr[c].entry].category, "model_ranges")
ModelWriteRanges(c) ==
    ModelWrite(c, "model_ranges", "param_ranges",
               registry_entries[thr[c].entry].param_ranges, "model_returned")

\* the caller reads the metadata through the pointer get_distribution_model
\* returned
ReadModel(c) ==
    /\ thr[c].pc = "model_returned"
    /\ thr' = [thr EXCEPT ![c].read = reg.model, ![c].pc = "returned"]
    /\ UNCHANGED <<reg, valVars, reqVars, appVars, distVars, numVars, histVars, jsVars>>

\* the caller has used the result
Leave(c) ==
    /\ thr[c].pc = "returned"
    /\ thr' = [thr EXCEPT ![c] = Idle]
    /\ UNCHANGED <<reg, valVars, reqVars, appVars, distVars, numVars, histVars, jsVars>>

InitRegistry ==
    /\ reg = StaticStorage
    /\ thr = [c \in Callers |-> Idle]
    /\ vin = [distribution |-> 0, parameters |-> NoRequest.parameters, param_count |-> 0]
    /\ vout = NoCall
    /\ vpc = "idle"
    /\ request = NoRequest
    /\ outcome = NoOutcome
    /\ rpc = "idle"
    /\ state = 0
    /\ op = 0
    /\ adds = 0
    /\ darg = 0
    /\ dres = 0
    /\ num = 0
    /\ hist = 0
    /\ bridge = 0
    /\ kbd = 0
    /\ lru = 0

NextRegistry ==
    \/ \E c \in Callers : EnterRegistry(c)
    \/ \E c \in Callers : InitializeCheck(c)
    \/ \E c \in Callers : InitializeBind(c)
    \/ \E c \in Callers : InitializePopulate(c)
    \/ \E c \in Callers : InitializeDone(c)
    \/ \E c \in Callers : RegistryGetDistribution(c)
    \/ \E c \in Callers : RegistryGetDistributionsByCategory(c)
    \/ \E c \in Callers : GetDistributionModel(c)
    \/ \E c \in Callers : ModelWriteId(c)
    \/ \E c \in Callers : ModelWriteName(c)
    \/ \E c \in Callers : ModelWriteParamCount(c)
    \/ \E c \in Callers : ModelWriteCategory(c)
    \/ \E c \in Callers : ModelWriteRanges(c)
    \/ \E c \in Callers : ReadModel(c)
    \/ \E c \in Callers : Leave(c)

SpecRegistry == InitRegistry /\ [][NextRegistry]_vars

(***************************************************************************)
(* The distribution implementations called directly                        *)
(***************************************************************************)
Implementations ==
    {"normal", "exponential", "chi_square", "t", "f", "geometric",
     "hypergeometric", "binomial", "negative_binomial", "poisson",
     "uniform", "gamma", "beta", "weibull", "pareto", "rayleigh"}

\* .param_count of the distribution_t each get_*_distribution returns
ImplParamCount(impl) ==
    CASE impl \in {"exponential", "chi_square", "t", "geometric", "poisson",
                   "rayleigh"} -> 1
      [] impl \in {"normal", "f", "binomial", "negative_binomial", "uniform",
                   "gamma", "beta", "weibull", "pareto"} -> 2
      [] impl = "hypergeometric" -> 3

DistParamValues == {NaN, Fin(-1000), Fin(0), Fin(500), Fin(1000), Fin(2000), Fin(4000)}
DistParamArrays ==
    {<<a, b, c>> : a \in DistParamValues, b \in DistParamValues,
                   c \in {Fin(0), Fin(2000)}}
DistParamCounts == 1..3
DistInputs ==
    {NaN, NegInf, PosInf, Fin(-1000), Fin(0), Fin(500), Fin(1000), Fin(3000),
     Fin(5800), Fin(6000)}

NotCalled == [fn |-> "none", x |-> NaN, value |-> NaN]

\* dist->pdf(x, params, param_count)
CallPdf ==
    /\ \E x \in DistInputs :
         dres' = [fn |-> "pdf", x |-> x,
                  value |-> DistPdf(darg.impl, x, darg.params, darg.param_count)]
    /\ UNCHANGED <<darg, valVars, reqVars, appVars, regVars, numVars, histVars, jsVars>>

\* dist->cdf(x, params, param_count)
CallCdf ==
    /\ \E x \in DistInputs :
         dres' = [fn |-> "cdf", x |-> x,
                  value |-> DistCdf(darg.impl, x, darg.params, darg.param_count)]
    /\ UNCHANGED <<darg, valVars, reqVars, appVars, regVars, numVars, histVars, jsVars>>

InitDistribution ==
    /\ darg \in [impl : Implementations, params : DistParamArrays,
                 param_count : DistParamCounts]
    /\ dres = NotCalled
    /\ vin = [distribution |-> 0, parameters |-> NoRequest.parameters, param_count |-> 0]
    /\ vout = NoCall
    /\ vpc = "idle"
    /\ request = NoRequest
    /\ outcome = NoOutcome
    /\ rpc = "idle"
    /\ state = 0
    /\ op = 0
    /\ adds = 0
    /\ reg = 0
    /\ thr = 0
    /\ num = 0
    /\ hist = 0
    /\ bridge = 0
    /\ kbd = 0
    /\ lru = 0

NextDistribution ==
    \/ CallPdf
    \/ CallCdf

SpecDistribution == InitDistribution /\ [][NextDistribution]_vars

(***************************************************************************)
(* The loops of the numerical routines, one iteration a step               *)
(***************************************************************************)
max_iter == 200

\* the test before binomial_cdf's normal approximation
NormalApproximation(params) ==
    LET n == params[1].v
        p == params[2].v
    IN /\ n >= 30000
       /\ (((n * p) \div 1000) * (1000 - p)) \div 1000 >= 9000
       /\ (n * p) \div 1000 >= 5000
       /\ (n * (1000 - p)) \div 1000 >= 5000

\* <<first value, last value, whether the body has a convergence break>> of
\* the loop variable of a routine called with x and params; a routine that
\* returns before its loop has last < first
LoopRange(routine, x, params) ==
    CASE routine = "binomial_cdf" ->
           IF binomial_cdf(x, params, 2) = Sym("binomial_cdf")
              /\ ~NormalApproximation(params)
           THEN <<0, Floor(x) \div 1000, FALSE>> ELSE <<0, -1, FALSE>>
      [] routine = "hypergeometric_cdf" ->
           IF hypergeometric_cdf(x, params, 3) = Sym("hypergeometric_cdf")
           THEN <<max_int(0, params[3].v - (params[1].v - params[2].v)) \div 1000,
                  Floor(x) \div 1000, FALSE>>
           ELSE <<0, -1, FALSE>>
      [] routine \in {"continued_fraction_beta", "continued_fraction_beta_f"} ->
           <<1, max_iter, TRUE>>
      [] routine = "regularized_incomplete_gamma_p series" -> <<1, 199, TRUE>>
      [] routine = "regularized_incomplete_gamma_p fraction" -> <<1, 200, TRUE>>
      [] routine = "log_gamma_function" -> <<1, 8, FALSE>>

LoopCalls ==
    {[routine |-> "binomial_cdf", x |-> Fin(x), params |-> <<Fin(n), Fin(p)>>] :
         x \in {-1000, 5000, 250500}, n \in {10000, 300000}, p \in {0, 1, 500}}
    \cup {[routine |-> "hypergeometric_cdf", x |-> Fin(x),
           params |-> <<Fin(N), Fin(N \div 2), Fin(n)>>] :
         x \in {5000, 210000}, N \in {20000, 1000000}, n \in {10000, 500000}}
    \cup {[routine |-> r, x |-> Fin(500), params |-> <<Fin(2000), Fin(3000)>>] :
         r \in {"continued_fraction_beta", "continued_fraction_beta_f",
                "regularized_incomplete_gamma_p series",
                "regularized_incomplete_gamma_p fraction", "log_gamma_function"}}

Entered(call) ==
    [routine |-> call.routine, x |-> call.x, params |-> call.params,
     i |-> LoopRange(call.routine, call.x, call.params)[1],
     last |-> LoopRange(call.routine, call.x, call.params)[2],
     breaks |-> LoopRange(call.routine, call.x, call.params)[3],
     iterations |-> 0, pc |-> "loop"]

\* one run of the body that reaches the increment of the loop variable
Iterate ==
    /\ num.pc = "loop"
    /\ num.i <= num.last
    /\ num' = [num EXCEPT !.i = @ + 1, !.iterations = @ + 1]
    /\ UNCHANGED <<valVars, reqVars, appVars, regVars, distVars, histVars, jsVars>>

\* one run of the body that ends in `break`: the convergence test holds
Converge ==
    /\ num.pc = "loop"
    /\ num.i <= num.last
    /\ num.breaks
    /\ num' = [num EXCEPT !.iterations = @ + 1, !.pc = "returned"]
    /\ UNCHANGED <<valVars, reqVars, appVars, regVars, distVars, histVars, jsVars>>

\* the loop condition fails
Finish ==
    /\ num.pc = "loop"
    /\ num.i > num.last
    /\ num' = [num EXCEPT !.pc = "returned"]
    /\ UNCHANGED <<valVars, reqVars, appVars, regVars, distVars, histVars, jsVars>>

InitLoops ==
    /\ num \in {Entered(call) : call \in LoopCalls}
    /\ hist = 0
    /\ bridge = 0
    /\ kbd = 0
    /\ lru = 0
    /\ vin = [distribution |-> 0, parameters |-> NoRequest.parameters, param_count |-> 0]
    /\ vout = NoCall
    /\ vpc = "idle"
    /\ request = NoRequest
    /\ outcome = NoOutcome
    /\ rpc = "idle"
    /\ state = 0
    /\ op = 0
    /\ adds = 0
    /\ reg = 0
    /\ thr = 0
    /\ darg = 0
    /\ dres = 0

NextLoops ==
    \/ Iterate
    \/ Converge
    \/ Finish

SpecLoops == InitLoops /\ [][NextLoops]_vars

(***************************************************************************)
(* Vocabulary of the properties                                            *)
(***************************************************************************)
Registered(kind) == kind \in 0..(DIST_COUNT - 1)
Arity(kind) == get_distribution_model(kind).param_count
Discrete(kind) == get_distribution_model(kind).category = DISTRIBUTION_DISCRETE
RegisteredMin(kind, i) == get_distribution_model(kind).param_ranges[i + 1][1]
RegisteredMax(kind, i) == get_distribution_model(kind).param_ranges[i + 1][2]

\* parameter i (0-based) is finite and inside the registered range of its slot
InsideRange(kind, parameters, i) ==
    /\ isfinite(parameters[i + 1])
    /\ Ge(parameters[i + 1], RegisteredMin(kind, i))
    /\ Le(parameters[i + 1], RegisteredMax(kind, i))

\* the kind's own validate function accepts the parameters
KindAccepts(kind, parameters, param_count) ==
    DistValidateParams(get_distribution(kind), parameters, param_count) = 1

\* the stated input rule: finite, and a non-negative integer for a discrete kind
InputAcceptable(x, kind) ==
    /\ ~isnan(x)
    /\ ~isinf(x)
    /\ Discrete(kind) => (Ge(x, Fin(0)) /\ IsIntegral(x))

BoundPdf(req) ==
    DistPdf(get_distribution(req.distribution), req.input_value, req.parameters,
            req.param_count)
BoundCdf(req) ==
    DistCdf(get_distribution(req.distribution), req.input_value, req.parameters,
            req.param_count)

\* a request every validation accepts: registered kind, the kind's arity, every
\* parameter inside its registered range and accepted by the kind's validate,
\* input accepted by the input check
RequestIsValid(req) ==
    /\ Registered(req.distribution)
    /\ req.param_count = Arity(req.distribution)
    /\ \A i \in 0..(req.param_count - 1) :
         InsideRange(req.distribution, req.parameters, i)
    /\ KindAccepts(req.distribution, req.parameters, req.param_count)
    /\ orchestrator_validate_input_value(req.input_value, req.distribution) = 0

ValidationErrors ==
    {CALC_ERROR_INVALID_DISTRIBUTION, CALC_ERROR_INVALID_PARAMETERS,
     CALC_ERROR_INVALID_INPUT}

(***************************************************************************)
(* Properties of orchestrator_calculate_with_request (SpecRequest)         *)
(***************************************************************************)
\* C1: a request of a registered kind with the kind's arity, every parameter
\* inside its registered range and accepted by the kind's own validate, and an
\* input accepted by the input check, returns CALC_SUCCESS with success = 1
\* and the pdf and cdf values of the bound functions, whenever both are finite.
C1_ValidRequestSucceeds ==
    (/\ rpc = "done"
     /\ RequestIsValid(request)
     /\ isfinite(BoundPdf(request))
     /\ isfinite(BoundCdf(request)))
    => /\ outcome.rc = CALC_SUCCESS
       /\ outcome.result.success = 1
       /\ outcome.result.pdf_result = BoundPdf(request)
       /\ outcome.result.cdf_result = BoundCdf(request)

\* C2: when the kind's own validate rejects the parameters, the request is
\* reported as invalid parameters without pdf or cdf being invoked; it is
\* never a success and never a calculation failure.
C2_KindRejectionIsValidationError ==
    (/\ rpc = "done"
     /\ Registered(request.distribution)
     /\ ~KindAccepts(request.distribution, request.parameters, request.param_count))
    => /\ outcome.rc = CALC_ERROR_INVALID_PARAMETERS
       /\ ~outcome.pdf_called
       /\ ~outcome.cdf_called
       /\ outcome.result.success = 0

\* the request passed every validation step the function executes before
\* dispatch (lines 66-97)
PassedEveryStep(req) ==
    /\ orchestrator_validate_calculation_request(req) = CALC_SUCCESS
    /\ get_distribution(req.distribution) # "NULL"
    /\ ~DistRejectsParams(get_distribution(req.distribution), req.parameters,
                          req.param_count)
    /\ InputAcceptable(req.input_value, req.distribution)

ParameterValuesFail(req) ==
    \/ \E i \in 0..(req.param_count - 1) :
         ~InsideRange(req.distribution, req.parameters, i)
    \/ ~KindAccepts(req.distribution, req.parameters, req.param_count)

\* C6: the reported error is that of the earliest failing step in the order
\* unknown kind, parameter arity, parameter values, input value; the error of
\* a later step is never reported while an earlier step would fail.
C6_EarliestFailingStepReported ==
    rpc = "done" =>
      /\ ~Registered(request.distribution)
           => outcome.rc = CALC_ERROR_INVALID_DISTRIBUTION
      /\ outcome.rc = CALC_ERROR_INVALID_PARAMETERS
           => Registered(request.distribution)
      /\ outcome.rc = CALC_ERROR_INVALID_INPUT
           => /\ Registered(request.distribution)
              /\ request.param_count = Arity(request.distribution)
              /\ ~ParameterValuesFail(request)

(***************************************************************************)
(* Properties of orchestrator_calculate (SpecState)                        *)
(***************************************************************************)
\* the request orchestrator_calculate builds from state s and input x
RequestOf(s, x) ==
    [distribution |-> s.current_distribution,
     parameters |-> s.current_parameters,
     param_count |-> s.parameter_count,
     input_value |-> x]

\* the calculation on state s and input x is one that succeeds: the state is
\* valid and its request is accepted by every validation, with finite results
CalculationSucceeds(s, x) ==
    /\ app_state_validate(s) = 0
    /\ RequestIsValid(RequestOf(s, x))
    /\ isfinite(BoundPdf(RequestOf(s, x)))
    /\ isfinite(BoundCdf(RequestOf(s, x)))

\* history after is history before with exactly one entry {kind, parameters,
\* input, pdf, cdf} of state s written at the head
OneEntryAppended(before, after, s, x) ==
    /\ after.head = (before.head + 1) % MAX_HISTORY_ENTRIES
    /\ after.count = IF before.count < MAX_HISTORY_ENTRIES
                     THEN before.count + 1 ELSE before.count
    /\ \A k \in 1..MAX_HISTORY_ENTRIES :
         k # before.head + 1 => after.entries[k] = before.entries[k]
    /\ after.entries[before.head + 1].distribution_type = s.current_distribution
    /\ after.entries[before.head + 1].parameters = s.current_parameters
    /\ after.entries[before.head + 1].input_value = x
    /\ after.entries[before.head + 1].pdf_result = BoundPdf(RequestOf(s, x))
    /\ after.entries[before.head + 1].cdf_result = BoundCdf(RequestOf(s, x))

\* C4: orchestrator_calculate appends exactly one entry {current kind, current
\* parameters, input value, pdf, cdf} to the history when the calculation
\* succeeds, and leaves count, head and every stored entry unchanged whenever
\* it returns an error.
C4_HistoryFollowsCalculation ==
    [][op'.name = "orchestrator_calculate" =>
         /\ CalculationSucceeds(state, op'.input_value)
              => OneEntryAppended(state.history, state'.history, state,
                                  op'.input_value)
         /\ op'.rc # CALC_SUCCESS => state'.history = state.history]_vars

(***************************************************************************)
(* Properties of the Parameter Validator (SpecValidator)                   *)
(***************************************************************************)
Validated == vout.call = "validate_distribution_parameters"

\* the count check passes: registered kind and the kind's arity
CountPasses == Registered(vin.distribution) /\ vin.param_count = Arity(vin.distribution)

\* the indices whose parameter fails the structural check of its slot
FailingIndices ==
    {i \in 0..(vin.param_count - 1) : ~InsideRange(vin.distribution, vin.parameters, i)}
FirstFailingIndex == CHOOSE i \in FailingIndices : \A j \in FailingIndices : i <= j

\* C7: validate_distribution_parameters returns the outcome of the first
\* failing check in the order parameter count, each parameter by increasing
\* index (finiteness, then registered range), mathematical constraints; the
\* mathematical stage is evaluated only when every structural check passed,
\* and a range violation names the lowest index whose value is out of range.
C7_FirstFailingCheckReported ==
    Validated =>
      /\ ~Registered(vin.distribution)
           => vout.result.error_code = VALIDATION_ERROR_UNKNOWN_DISTRIBUTION
      /\ (Registered(vin.distribution) /\ ~CountPasses)
           => vout.result.error_code = VALIDATION_ERROR_INVALID_COUNT
      /\ (CountPasses /\ FailingIndices # {})
           => IF ~isfinite(vin.parameters[FirstFailingIndex + 1])
              THEN vout.result.error_code = VALIDATION_ERROR_INVALID_FORMAT
              ELSE /\ vout.result.error_code = VALIDATION_ERROR_OUT_OF_RANGE
                   /\ vout.result.invalid_parameter_index = FirstFailingIndex
      /\ (CountPasses /\ FailingIndices = {})
           => vout.result = validate_mathematical_constraints(
                                vin.distribution, vin.parameters, vin.param_count)
      /\ vout.result.error_code = VALIDATION_ERROR_MATHEMATICAL_CONSTRAINT
           => (CountPasses /\ FailingIndices = {})

\* a range violation reported at index 1 while the parameter at index 2
\* fails its structural check too
C7_Witness ==
    /\ Validated
    /\ vin.distribution = DIST_HYPERGEOMETRIC
    /\ CountPasses
    /\ vout.result.error_code = VALIDATION_ERROR_OUT_OF_RANGE
    /\ vout.result.invalid_parameter_index = 1
    /\ FailingIndices = {1, 2}

\* Binomial parameters with a valid trial count and p = 1.5
BinomialWithProbabilityOneAndAHalf ==
    /\ Validated
    /\ vin.distribution = DIST_BINOMIAL
    /\ vin.param_count = 2
    /\ InsideRange(DIST_BINOMIAL, vin.parameters, 0)
    /\ IsIntegral(vin.parameters[1])
    /\ vin.parameters[2] = Fin(1500)

\* C8 as stated: Binomial parameters with a valid trial count and p = 1.5
\* yield ParameterOutOfRange on the probability parameter with the suggested
\* value 1.0.
C8_SuggestsOne ==
    BinomialWithProbabilityOneAndAHalf =>
      /\ vout.result.error_code = VALIDATION_ERROR_OUT_OF_RANGE
      /\ vout.result.invalid_parameter_index = 1
      /\ vout.result.has_suggestion = 1
      /\ vout.result.suggested_value = Fin(1000)

\* C8 amended: Binomial parameters with a valid trial count and p = 1.5 yield
\* ParameterOutOfRange on the probability parameter with the suggested value
\* 0.999, the registered maximum of the probability slot.
C8_SuggestsRegisteredMaximum ==
    BinomialWithProbabilityOneAndAHalf =>
      /\ vout.result.error_code = VALIDATION_ERROR_OUT_OF_RANGE
      /\ vout.result.invalid_parameter_index = 1
      /\ vout.result.has_suggestion = 1
      /\ vout.result.suggested_value = Fin(999)
      /\ vout.result.suggested_value = RegisteredMax(DIST_BINOMIAL, 1)

C8_Witness ==
    /\ BinomialWithProbabilityOneAndAHalf
    /\ vout.result.error_code = VALIDATION_ERROR_OUT_OF_RANGE

\* Hypergeometric parameters (N, K, n), each inside its registered range
HypergeometricInsideRanges ==
    /\ Validated
    /\ vin.distribution = DIST_HYPERGEOMETRIC
    /\ vin.param_count = 3
    /\ \A i \in 0..2 : InsideRange(DIST_HYPERGEOMETRIC, vin.parameters, i)

\* C9: Hypergeometric parameters inside their registered ranges with K > N
\* yield MathematicalConstraintViolation on successStates (index 1) with the
\* suggested value N; with K <= N and n > N they yield it on sampleSize
\* (index 2) with the suggested value N.
C9_HypergeometricConstraints ==
    HypergeometricInsideRanges =>
      /\ Gt(vin.parameters[2], vin.parameters[1])
           => /\ vout.result.error_code = VALIDATION_ERROR_MATHEMATICAL_CONSTRAINT
              /\ vout.result.invalid_parameter_index = 1
              /\ vout.result.has_suggestion = 1
              /\ vout.result.suggested_value = vin.parameters[1]
      /\ (Le(vin.parameters[2], vin.parameters[1])
          /\ Gt(vin.parameters[3], vin.parameters[1]))
           => /\ vout.result.error_code = VALIDATION_ERROR_MATHEMATICAL_CONSTRAINT
              /\ vout.result.invalid_parameter_index = 2
              /\ vout.result.has_suggestion = 1
              /\ vout.result.suggested_value = vin.parameters[1]

\* K <= N and n > N, reported on sampleSize
C9_Witness ==
    /\ HypergeometricInsideRanges
    /\ Le(vin.parameters[2], vin.parameters[1])
    /\ Gt(vin.parameters[3], vin.parameters[1])
    /\ vout.result.invalid_parameter_index = 2

\* a validator call reported a range violation on a registered parameter slot
RangeViolationReported ==
    /\ vout.call # "none"
    /\ vout.result.error_code = VALIDATION_ERROR_OUT_OF_RANGE
    /\ Registered(vin.distribution)
    /\ vout.result.invalid_parameter_index < Arity(vin.distribution)

\* C10: for every range violation the Validator reports, the suggested value
\* is the violated bound: the registered minimum when the value is below the
\* range, the registered maximum when it is above, and so lies inside the
\* registered [min, max] of the slot.
C10_SuggestionIsViolatedBound ==
    RangeViolationReported =>
      LET i == vout.result.invalid_parameter_index
          value == vin.parameters[i + 1]
      IN /\ vout.result.has_suggestion = 1
         /\ Lt(value, RegisteredMin(vin.distribution, i)) \/ Gt(value, RegisteredMax(vin.distribution, i))
         /\ Lt(value, RegisteredMin(vin.distribution, i))
              => vout.result.suggested_value = RegisteredMin(vin.distribution, i)
         /\ Gt(value, RegisteredMax(vin.distribution, i))
              => vout.result.suggested_value = RegisteredMax(vin.distribution, i)
         /\ Ge(vout.result.suggested_value, RegisteredMin(vin.distribution, i))
         /\ Le(vout.result.suggested_value, RegisteredMax(vin.distribution, i))

\* a value below the registered minimum was answered with the minimum
C10_Witness ==
    /\ RangeViolationReported
    /\ Lt(vin.parameters[vout.result.invalid_parameter_index + 1],
          RegisteredMin(vin.distribution, vout.result.invalid_parameter_index))
    /\ vout.result.suggested_value =
         RegisteredMin(vin.distribution, vout.result.invalid_parameter_index)

\* a validate_distribution_parameters call on Binomial or NegativeBinomial
\* parameters that pass the count check and the range check of every slot,
\* with a trial/success count that is not an integer
TrialCountNotAnInteger ==
    /\ Validated
    /\ vin.distribution \in {DIST_BINOMIAL, DIST_NEGATIVE_BINOMIAL}
    /\ CountPasses
    /\ FailingIndices = {}
    /\ ~IsIntegral(vin.parameters[1])

\* C11: for Binomial and NegativeBinomial, a trial/success count that lies
\* inside its registered range but is not a positive integer is rejected by
\* validate_distribution_parameters (the count check and the range checks
\* having passed) with MathematicalConstraintViolation on parameter index 0,
\* and the suggested value is a positive integer inside the registered range.
C11_NonIntegerCountRejected ==
    TrialCountNotAnInteger =>
      /\ vout.result.error_code = VALIDATION_ERROR_MATHEMATICAL_CONSTRAINT
      /\ vout.result.invalid_parameter_index = 0
      /\ vout.result.has_suggestion = 1
      /\ isfinite(vout.result.suggested_value)
      /\ vout.result.suggested_value.v % 1000 = 0
      /\ vout.result.suggested_value.v >= 1000
      /\ Ge(vout.result.suggested_value, RegisteredMin(vin.distribution, 0))
      /\ Le(vout.result.suggested_value, RegisteredMax(vin.distribution, 0))

\* NegativeBinomial with r = 1.5: rejected, and 2 is suggested
C11_Witness ==
    /\ TrialCountNotAnInteger
    /\ vin.distribution = DIST_NEGATIVE_BINOMIAL
    /\ vin.parameters[1] = Fin(1500)
    /\ vout.result.suggested_value = Fin(2000)

(***************************************************************************)
(* Properties of the registry (SpecRegistry)                               *)
(***************************************************************************)
\* caller c has returned from registry_get_distribution
LookedUp(c) == thr[c].pc = "returned" /\ thr[c].fn = "registry_get_distribution"

\* no two entries of the table share a kind
NoTwoEntriesShareAKind ==
    \A j, k \in 1..DIST_COUNT :
        registry_entries[j].type = registry_entries[k].type => j = k

\* the entry (index k + 1) is of the kind and its implementation is bound
EntryOfKind(entry, kind) ==
    /\ entry \in 1..DIST_COUNT
    /\ registry_entries[entry].type = kind
    /\ reg.distribution_impl[entry] # "NULL"
    /\ reg.distribution_impl[entry] = BoundImplementation(kind)

\* C12 as stated: the registry holds exactly one entry for each of the
\* sixteen kinds (the ten of distribution_type_t and Uniform, Gamma, Beta,
\* Weibull, Pareto, Rayleigh, numbered 10..15): lookup by kind returns a
\* non-null entry of the requested kind with a bound implementation, and no
\* two entries share a kind.
C12_SixteenKindsRegistered ==
    /\ NoTwoEntriesShareAKind
    /\ \A c \in Callers :
         (LookedUp(c) /\ thr[c].type \in 0..15) => EntryOfKind(thr[c].entry, thr[c].type)

\* C12 amended: the registry holds exactly one entry for each of the ten
\* kinds of distribution_type_t (Normal .. Poisson): lookup by such a kind
\* returns a non-null entry of that kind with a bound implementation, no two
\* entries share a kind, and lookup by any other value returns NULL.
C12_TenKindsRegistered ==
    /\ NoTwoEntriesShareAKind
    /\ \A c \in Callers :
         LookedUp(c) =>
           IF thr[c].type \in 0..(DIST_COUNT - 1)
           THEN EntryOfKind(thr[c].entry, thr[c].type)
           ELSE thr[c].entry = 0

\* Poisson, the last kind, was looked up and found
C12_Witness ==
    \E c \in Callers :
        /\ LookedUp(c)
        /\ thr[c].type = DIST_POISSON
        /\ thr[c].entry = DIST_COUNT

\* the metadata the registry holds for the kind of entry (index k + 1)
RegisteredMetadata(entry) ==
    [distribution_id |-> registry_entries[entry].type,
     name |-> registry_entries[entry].name,
     param_count |-> registry_entries[entry].param_count,
     category |-> registry_entries[entry].category,
     param_ranges |-> registry_entries[entry].param_ranges]

\* the registry data once initialize_registry has completed
RegistryDataAsInitialized ==
    /\ \A k \in 1..DIST_COUNT :
         reg.distribution_impl[k] = BoundImplementation(registry_entries[k].type)
    /\ reg.continuous_distributions = <<1, 2, 3, 4, 5>>
    /\ reg.discrete_distributions = <<6, 7, 8, 9, 10>>

\* caller c has read the metadata through the pointer that
\* get_distribution_model returned for a registered kind
ModelRead(c) ==
    /\ thr[c].pc = "returned"
    /\ thr[c].fn = "get_distribution_model"
    /\ thr[c].entry # 0

\* C13: after initialization the registry data stay as initialized, and a
\* metadata query issued by any of the concurrent callers, without locking,
\* yields exactly the registered metadata (name, parameter count, ranges,
\* category) of the kind that caller asked for, never that of a kind another
\* caller asked for.
C13_QueriesReturnOwnMetadata ==
    /\ reg.registry_initialized = 1 => RegistryDataAsInitialized
    /\ \A c \in Callers :
         ModelRead(c) => thr[c].read = RegisteredMetadata(Lookup(reg, thr[c].type))

\* caller c has returned from registry_get_distributions_by_category with a
\* listing of one of the two categories
Listed(c) ==
    /\ thr[c].pc = "returned"
    /\ thr[c].fn = "registry_get_distributions_by_category"
    /\ thr[c].category \in {DISTRIBUTION_CONTINUOUS, DISTRIBUTION_DISCRETE}

\* the entries (indices k + 1) a listing points to
ListedEntries(list) == {list[k] : k \in 1..Len(list)} \ {0}

ListedNames(list) == [k \in 1..Len(list) |-> registry_entries[list[k]].name]

\* C14: the continuous and the discrete listing are disjoint, together hold
\* every registry entry exactly once, each listed entry carries the category
\* of its listing, and the count reported with a listing is the number of
\* entries in it (continuous: Normal, Exponential, Chi-Square, t, F;
\* discrete: Geometric, Hypergeometric, Binomial, Negative Binomial, Poisson).
C14_ListingsPartitionTheRegistry ==
    \A c \in Callers :
        Listed(c) =>
          LET continuous == CategoryList(reg, DISTRIBUTION_CONTINUOUS)
              discrete == CategoryList(reg, DISTRIBUTION_DISCRETE)
          IN /\ thr[c].list = CategoryList(reg, thr[c].category)
             /\ ListedEntries(continuous) \cap ListedEntries(discrete) = {}
             /\ ListedEntries(continuous) \cup ListedEntries(discrete) = 1..DIST_COUNT
             /\ Cardinality(ListedEntries(continuous)) = Len(continuous)
             /\ Cardinality(ListedEntries(discrete)) = Len(discrete)
             /\ \A e \in ListedEntries(thr[c].list) :
                    registry_entries[e].category = thr[c].category
             /\ thr[c].count = Cardinality(ListedEntries(thr[c].list))
             /\ ListedNames(continuous) =
                    <<"Normal", "Exponential", "Chi-Square", "t-Distribution",
                      "F-Distribution">>
             /\ ListedNames(discrete) =
                    <<"Geometric", "Hypergeometric", "Binomial", "Negative Binomial",
                      "Poisson">>

\* the discrete listing was returned with its five entries
C14_Witness ==
    \E c \in Callers :
        /\ Listed(c)
        /\ thr[c].category = DISTRIBUTION_DISCRETE
        /\ thr[c].count = 5
        /\ thr[c].list = <<6, 7, 8, 9, 10>>

(***************************************************************************)
(* C15: for every distribution kind, whenever the parameters are invalid   *)
(* (the parameter count is not the kind's, or validate returns false), pdf *)
(* and cdf return NaN for every input x, the infinities and the values     *)
(* outside the support included; never 0, 1 or another number.             *)
(***************************************************************************)
ParametersInvalid ==
    \/ darg.param_count # ImplParamCount(darg.impl)
    \/ DistValidateParams(darg.impl, darg.params, darg.param_count) = 0

C15_InvalidParametersGiveNaN ==
    (dres.fn \in {"pdf", "cdf"} /\ ParametersInvalid) => isnan(dres.value)

\* the count is the kind's, validate returns false, and cdf was asked at
\* +Infinity, where a valid parameter set gives 1
C15_Witness ==
    /\ dres.fn = "cdf"
    /\ dres.x = PosInf
    /\ darg.param_count = ImplParamCount(darg.impl)
    /\ DistValidateParams(darg.impl, darg.params, darg.param_count) = 0
    /\ isnan(dres.value)

(***************************************************************************)
(* C16: for every kind with valid parameters, pdf(x) returns 0, never NaN, *)
(* for every x outside the support of the distribution: x below or above   *)
(* the bounds of the support, a non-integer x for a discrete kind, and     *)
(* x = -Infinity or +Infinity.                                             *)
(***************************************************************************)
ParametersValid ==
    /\ darg.param_count = ImplParamCount(darg.impl)
    /\ DistValidateParams(darg.impl, darg.params, darg.param_count) = 1

DiscreteImplementations ==
    {"geometric", "hypergeometric", "binomial", "negative_binomial", "poisson"}

\* x is a number outside the support of the kind with these parameters
OutsideSupport(impl, x, params) ==
    /\ ~isnan(x)
    /\ \/ isinf(x)
       \/ /\ impl \in {"exponential", "chi_square", "f", "gamma", "weibull",
                       "rayleigh", "beta", "hypergeometric", "binomial",
                       "negative_binomial", "poisson"}
          /\ Lt(x, Fin(0))
       \/ impl = "beta" /\ Gt(x, Fin(1000))
       \/ impl = "uniform" /\ (Lt(x, params[1]) \/ Gt(x, params[2]))
       \/ impl = "pareto" /\ Lt(x, params[1])
       \/ impl = "geometric" /\ Lt(x, Fin(1000))
       \/ impl \in DiscreteImplementations /\ x.v % 1000 # 0
       \/ impl = "binomial" /\ Gt(x, params[1])
       \/ /\ impl = "hypergeometric"
          /\ \/ x.v > params[3].v
             \/ x.v > params[2].v
             \/ x.v < params[3].v - (params[1].v - params[2].v)

C16_PdfZeroOutsideSupport ==
    (/\ dres.fn = "pdf"
     /\ ParametersValid
     /\ OutsideSupport(darg.impl, dres.x, darg.params))
        => dres.value = Fin(0)

(***************************************************************************)
(* C17: for every kind with valid parameters, cdf(-Infinity) returns       *)
(* exactly 0 and cdf(+Infinity) returns exactly 1.                         *)
(***************************************************************************)
C17_CdfAtInfinities ==
    (dres.fn = "cdf" /\ ParametersValid /\ isinf(dres.x))
        => dres.value = (IF dres.x = NegInf THEN Fin(0) ELSE Fin(1000))

C17_Witness ==
    /\ dres.fn = "cdf"
    /\ ParametersValid
    /\ darg.impl = "uniform"
    /\ dres.x = PosInf
    /\ dres.value = Fin(1000)

(***************************************************************************)
(* C18: for every kind and every fixed valid parameter set, cdf(x) lies in *)
(* [0,1] for every x, and x1 <= x2 implies cdf(x1) <= cdf(x2), also across *)
(* the points where an implementation changes its computation branch.      *)
(* Stated over two calls in a row with the same parameters, for the        *)
(* results whose value the model computes.                                 *)
(***************************************************************************)
Known(value) == value.sym = ""

InUnitInterval(value) == Ge(value, Fin(0)) /\ Le(value, Fin(1000))

CdfReturned(call) == call.fn = "cdf" /\ ~isnan(call.x) /\ Known(call.value)

C18_CdfInUnitIntervalAndMonotone ==
    [][(ParametersValid /\ CdfReturned(dres'))
          => /\ InUnitInterval(dres'.value)
             /\ CdfReturned(dres)
                  => /\ Le(dres.x, dres'.x) => Le(dres.value, dres'.value)
                     /\ Le(dres'.x, dres.x) => Le(dres'.value, dres.value)]_vars

(***************************************************************************)
(* C20: every iterative numerical routine (continued fraction, series or   *)
(* summation loop) ends within a fixed cap of at most 200 iterations that  *)
(* does not depend on the magnitude of the parameters or of the input      *)
(* value; no loop has an iteration count that grows with its inputs.       *)
(***************************************************************************)
C20_IterationsWithinCap == num.iterations <= max_iter

(***************************************************************************)
(* The calculation history on its own: the ring buffer, its binary form    *)
(* and the reader of that form.  Entries are told apart by their           *)
(* timestamp, the value of a clock that advances with every entry created. *)
(* hist.log is the sequence of the entries added since the history was     *)
(* last emptied or loaded, hist.saved is the history from which            *)
(* hist.buffer was written, and hist.before is the history as it was when  *)
(* history_deserialize was called, while that call is the last operation.  *)
(***************************************************************************)
MaxClock == 11

ENTRY_SIZE == 64

NULL == [null |-> TRUE]

history_get_entryFromHead(history, index) ==
    IF index >= history.count
      THEN NULL
      ELSE history.entries[((history.head - index + MAX_HISTORY_ENTRIES)
                              % MAX_HISTORY_ENTRIES) + 1]

history_get_entry(history, index) ==
    IF index >= history.count
      THEN NULL
      ELSE history.entries[((history.head - 1 - index + MAX_HISTORY_ENTRIES)
                              % MAX_HISTORY_ENTRIES) + 1]

history_get_count(history) == history.count

history_create_entry(timestamp) == [ZeroEntry EXCEPT !.timestamp = timestamp]

history_get_serialized_size(history) == 1 + 1 + history.count * ENTRY_SIZE

NoBuffer == [data |-> <<>>, size |-> 0]

history_serializeNewestFirst(history, buffer, buffer_size) ==
    IF buffer_size < history_get_serialized_size(history)
      THEN [ret |-> -1, buffer |-> buffer]
      ELSE [ret |-> 0,
            buffer |-> [data |-> <<history.count, history.head>> \o
                                 [i \in 1..history.count |->
                                    history_get_entry(history, i - 1)],
                        size |-> history_get_serialized_size(history)]]

history_serialize(history, buffer, buffer_size) ==
    IF buffer_size < history_get_serialized_size(history)
      THEN [ret |-> -1, buffer |-> buffer]
      ELSE [ret |-> 0,
            buffer |-> [data |-> <<history.count, history.head>> \o
                                 [i \in 1..history.count |->
                                    history_get_entry(history,
                                                      history.count - i)],
                        size |-> history_get_serialized_size(history)]]

RECURSIVE ReadEntries(_, _, _, _)
ReadEntries(history, data, count, i) ==
    IF i >= count
      THEN history
      ELSE ReadEntries(history_add_entry(history, data[2 + i + 1]),
                       data, count, i + 1)

history_deserializeInitFirst(history, buffer) ==
    IF buffer.size < 2
      THEN [ret |-> -1, history |-> history]
      ELSE LET count == buffer.data[1]
               head == buffer.data[2]
           IN  IF count > MAX_HISTORY_ENTRIES \/ head >= MAX_HISTORY_ENTRIES
                 THEN [ret |-> -1, history |-> history]
                 ELSE IF buffer.size < 2 + count * ENTRY_SIZE
                   THEN [ret |-> -1, history |-> history_init]
                   ELSE [ret |-> 0,
                         history |-> ReadEntries(history_init, buffer.data,
                                                 count, 0)]

history_deserialize(history, buffer) ==
    IF buffer.size < 2
      THEN [ret |-> -1, history |-> history]
      ELSE LET count == buffer.data[1]
               head == buffer.data[2]
           IN  IF count > MAX_HISTORY_ENTRIES \/ head >= MAX_HISTORY_ENTRIES
                 THEN [ret |-> -1, history |-> history]
                 ELSE IF buffer.size < 2 + count * ENTRY_SIZE
                   THEN [ret |-> -1, history |-> history]
                   ELSE [ret |-> 0,
                         history |-> ReadEntries(history_init, buffer.data,
                                                 count, 0)]

(* The files history_load_from_file can meet: the one written by the last  *)
(* save, and that file cut short or with a damaged header.                 *)
Files(buffer) ==
    {buffer,
     [buffer EXCEPT !.size = 1],
     [buffer EXCEPT !.size = IF buffer.size = 0 THEN 0 ELSE buffer.size - 1]}
    \cup (IF buffer.size < 2 THEN {}
          ELSE {[buffer EXCEPT !.data[1] = MAX_HISTORY_ENTRIES + 1],
                [buffer EXCEPT !.data[2] = MAX_HISTORY_ENTRIES]})

history_load_from_file(history, file) ==
    IF file.size <= 0 \/ file.size > 65536
      THEN [ret |-> -1, history |-> history]
      ELSE history_deserialize(history, file)

HistoryCall(name, ret, intact) ==
    [op |-> name, ret |-> ret, intact |-> intact]

InitHistory ==
    /\ vin = 0 /\ vout = 0 /\ vpc = 0
    /\ request = 0 /\ outcome = 0 /\ rpc = 0
    /\ state = 0 /\ op = 0 /\ adds = 0
    /\ reg = 0 /\ thr = 0
    /\ darg = 0 /\ dres = 0
    /\ num = 0
    /\ hist = [history |-> history_init, clock |-> 0, log |-> <<>>,
               buffer |-> NoBuffer, saved |-> history_init,
               before |-> history_init,
               last |-> HistoryCall("history_init", 0, TRUE)]
    /\ bridge = 0
    /\ kbd = 0
    /\ lru = 0

HistoryFrame ==
    UNCHANGED <<valVars, reqVars, appVars, regVars, distVars, numVars, jsVars>>

AddEntry ==
    /\ hist.clock < MaxClock
    /\ hist' = [hist EXCEPT
                  !.history = history_add_entry(
                                  hist.history,
                                  history_create_entry(hist.clock + 1)),
                  !.clock = hist.clock + 1,
                  !.log = Append(hist.log,
                                 history_create_entry(hist.clock + 1)),
                  !.before = history_add_entry(
                                 hist.history,
                                 history_create_entry(hist.clock + 1)),
                  !.last = HistoryCall("history_add_entry", 0, TRUE)]
    /\ HistoryFrame

ClearHistory ==
    /\ hist.last.op # "history_clear"
    /\ hist' = [hist EXCEPT
                  !.history = history_clear(hist.history),
                  !.log = <<>>,
                  !.before = history_clear(hist.history),
                  !.last = HistoryCall("history_clear", 0, TRUE)]
    /\ HistoryFrame

SaveHistory ==
    /\ \E buffer_size \in {history_get_serialized_size(hist.history) - 1,
                           history_get_serialized_size(hist.history)} :
         LET written == history_serialize(hist.history, hist.buffer,
                                          buffer_size)
         IN  hist' = [hist EXCEPT
                        !.buffer = written.buffer,
                        !.saved = IF written.ret = 0 THEN hist.history
                                                     ELSE hist.saved,
                        !.before = hist.history,
                        !.last = HistoryCall("history_serialize",
                                             written.ret, TRUE)]
    /\ HistoryFrame

LoadHistory ==
    /\ \E file \in Files(hist.buffer) :
         LET loaded == history_load_from_file(hist.history, file)
         IN  hist' = [hist EXCEPT
                        !.history = loaded.history,
                        !.log = IF loaded.ret = 0
                                  THEN SubSeq(file.data, 3, Len(file.data))
                                  ELSE hist.log,
                        !.before = hist.history,
                        !.last = HistoryCall("history_deserialize",
                                             loaded.ret,
                                             file = hist.buffer)]
    /\ HistoryFrame

NextHistory ==
    \/ AddEntry
    \/ ClearHistory
    \/ SaveHistory
    \/ LoadHistory

SpecHistory == InitHistory /\ [][NextHistory]_vars

(***************************************************************************)
(* C21: after any sequence of history_add_entry and history_clear the      *)
(* history holds min(number of adds since the last clear, 10) entries;     *)
(* history_get_entry(i) for 0 <= i < count returns the (i+1)-th most       *)
(* recently added entry and NULL for i >= count; so adding to a full       *)
(* history discards exactly the oldest entry.                              *)
(***************************************************************************)
Min(a, b) == IF a < b THEN a ELSE b

C21_HistoryKeepsTheLastTen ==
    /\ history_get_count(hist.history)
         = Min(Len(hist.log), MAX_HISTORY_ENTRIES)
    /\ \A index \in 0..(MAX_HISTORY_ENTRIES + 1) :
         history_get_entry(hist.history, index)
           = IF index < Min(Len(hist.log), MAX_HISTORY_ENTRIES)
               THEN hist.log[Len(hist.log) - index]
               ELSE NULL

C21_Witness ==
    /\ hist.last.op = "history_add_entry"
    /\ Len(hist.log) = MAX_HISTORY_ENTRIES + 1
    /\ hist.history.head = 1
    /\ history_get_entry(hist.history, 0) = hist.log[Len(hist.log)]

(***************************************************************************)
(* C22: for every reachable history, also a full one whose head has        *)
(* wrapped, reading back what history_serialize wrote succeeds and gives   *)
(* a history with the same count whose entry at every index equals the     *)
(* entry of the original at that index.                                    *)
(***************************************************************************)
RoundTripDone ==
    /\ hist.last.op = "history_deserialize"
    /\ hist.last.intact
    /\ hist.buffer # NoBuffer

C22_SerializeDeserializeRoundTrip ==
    RoundTripDone
      => /\ hist.last.ret = 0
         /\ history_get_count(hist.history) = history_get_count(hist.saved)
         /\ \A index \in 0..(MAX_HISTORY_ENTRIES - 1) :
              history_get_entry(hist.history, index)
                = history_get_entry(hist.saved, index)

C22_Witness ==
    /\ RoundTripDone
    /\ hist.saved.count = MAX_HISTORY_ENTRIES
    /\ hist.saved.head = 1
    /\ hist.history.head = 0
    /\ hist.before.count = 0
    /\ history_get_entry(hist.history, 9).timestamp = 2

(***************************************************************************)
(* C29: whenever history_deserialize returns an error (a buffer of fewer   *)
(* than 2 bytes, a header count above 10, a header head not below 10, or   *)
(* too few bytes for the entries announced), the target history is left    *)
(* exactly as it was before the call.                                      *)
(***************************************************************************)
DeserializeFailed ==
    /\ hist.last.op = "history_deserialize"
    /\ hist.last.ret # 0

C29_FailedDeserializeLeavesHistory ==
    DeserializeFailed => hist.history = hist.before

C29_Witness ==
    /\ DeserializeFailed
    /\ hist.before.count = 3
    /\ hist.buffer.size = 2 + 2 * ENTRY_SIZE
    /\ hist.history.count = 3

(***************************************************************************)
(* C23: after a successful app_state_set_distribution every parameter slot *)
(* is 0 and the category and the parameter count equal the registry's      *)
(* values for the new kind; a rejected call (unknown kind or uninitialised *)
(* state) leaves the state unchanged.                                      *)
(***************************************************************************)
SetDistributionReturned(call) == call.name = "app_state_set_distribution"

RegisteredAs(kind) ==
    CHOOSE entry \in {registry_entries[i] : i \in 1..DIST_COUNT} :
        entry.type = kind

C23_SetDistributionResetsParameters ==
    [][SetDistributionReturned(op')
         => IF op'.rc = 0
              THEN /\ \A i \in 1..MAX_PARAMETERS :
                        state'.current_parameters[i] = Fin(0)
                   /\ state'.current_category
                        = RegisteredAs(state'.current_distribution).category
                   /\ state'.parameter_count
                        = RegisteredAs(state'.current_distribution).param_count
                   /\ state'.history = state.history
                   /\ state'.is_initialized = state.is_initialized
              ELSE state' = state]_vars

C23_Witness ==
    /\ SetDistributionReturned(op)
    /\ op.rc = 0
    /\ state.current_distribution = DIST_HYPERGEOMETRIC
    /\ state.current_category = DISTRIBUTION_DISCRETE
    /\ state.parameter_count = 3
    /\ state.history.count = 1

(***************************************************************************)
(* The summation loop of negative_binomial_cdf, one iteration per step.    *)
(* The terms run from 1e-19 to 1, so a double is a decimal floating-point  *)
(* number here: [m, e] stands for m * 10^e with a mantissa m of four       *)
(* digits (m = 0 for zero).  num holds the locals of the call, and next to *)
(* them the sum of all the terms up to k (num.term, num.sum, num.j), which *)
(* is carried on after the loop has ended.                                 *)
(***************************************************************************)
RECURSIVE Norm(_, _)
Norm(m, e) ==
    IF m = 0 THEN [m |-> 0, e |-> 0]
    ELSE IF m > 9999 THEN Norm(m \div 10, e + 1)
    ELSE IF m < 1000 THEN Norm(m * 10, e - 1)
    ELSE [m |-> m, e |-> e]

RECURSIVE TenTo(_)
TenTo(n) == IF n = 0 THEN 1 ELSE 10 * TenTo(n - 1)

DecOfThousandths(v) == Norm(v, -3)

DecMul(a, b) == Norm(a.m * b.m, a.e + b.e)

DecSquare(a) == DecMul(a, a)

RECURSIVE DecPow(_, _)
DecPow(a, n) ==
    IF n = 0 THEN Norm(1, 0)
    ELSE IF n % 2 = 0 THEN DecSquare(DecPow(a, n \div 2))
    ELSE DecMul(a, DecPow(a, n - 1))

DecAdd(a, b) ==
    IF a.m = 0 THEN b
    ELSE IF b.m = 0 THEN a
    ELSE LET hi == IF a.e >= b.e THEN a ELSE b
             lo == IF a.e >= b.e THEN b ELSE a
         IN  IF hi.e - lo.e > 4
               THEN hi
               ELSE Norm(hi.m + lo.m \div TenTo(hi.e - lo.e), hi.e)

\* current_pdf * ((double)(i + r - 1) * (1.0 - p)) / (double)i, p in thousandths
NextTerm(current_pdf, i, r, p) ==
    Norm((current_pdf.m * (i + r - 1) * (1000 - p)) \div i, current_pdf.e - 3)

\* current_pdf < 1e-15
Negligible(current_pdf) == current_pdf.m = 0 \/ current_pdf.e < -18

Thousandths(a) ==
    IF a.m = 0 \/ a.e < -7 THEN 0
    ELSE IF a.e >= -3 THEN a.m * TenTo(a.e + 3)
    ELSE a.m \div TenTo(-(a.e + 3))

\* negative_binomial_pdf(0.0, params, param_count): exp(r * log(p)), p < 1
negative_binomial_pdf_at_zero(r, p) == DecPow(DecOfThousandths(p), r)

Successes == {1, 2, 5, 60}
Probabilities == {100, 500, 900}
Failures == {0, 1, 5, 20, 60}

negative_binomial_cdf_enter(r, p, k) ==
    [r |-> r, p |-> p, k |-> k, i |-> 1,
     current_pdf |-> negative_binomial_pdf_at_zero(r, p),
     cdf |-> negative_binomial_pdf_at_zero(r, p),
     pc |-> "loop", early |-> FALSE,
     term |-> negative_binomial_pdf_at_zero(r, p),
     sum |-> negative_binomial_pdf_at_zero(r, p), j |-> 1]

InitSummation ==
    /\ vin = 0 /\ vout = 0 /\ vpc = 0
    /\ request = 0 /\ outcome = 0 /\ rpc = 0
    /\ state = 0 /\ op = 0 /\ adds = 0
    /\ reg = 0 /\ thr = 0
    /\ darg = 0 /\ dres = 0
    /\ num \in {negative_binomial_cdf_enter(r, p, k) :
                  r \in Successes, p \in Probabilities, k \in Failures}
    /\ hist = 0
    /\ bridge = 0
    /\ kbd = 0
    /\ lru = 0

SummationFrame ==
    UNCHANGED <<valVars, reqVars, appVars, regVars, distVars, histVars, jsVars>>

AddTerm ==
    /\ num.pc = "loop"
    /\ num.i <= num.k
    /\ LET term == NextTerm(num.current_pdf, num.i, num.r, num.p)
       IN  num' = [num EXCEPT
                     !.current_pdf = term,
                     !.cdf = DecAdd(num.cdf, term),
                     !.i = IF Negligible(term) THEN num.i ELSE num.i + 1,
                     !.pc = IF Negligible(term) THEN "return" ELSE "loop",
                     !.early = Negligible(term) /\ num.i < num.k,
                     !.term = term,
                     !.sum = DecAdd(num.sum, term),
                     !.j = num.i + 1]
    /\ SummationFrame

ReturnCdf ==
    /\ num.pc = "loop"
    /\ num.i > num.k
    /\ num' = [num EXCEPT !.pc = "return"]
    /\ SummationFrame

SumRemainingTerm ==
    /\ num.pc = "return"
    /\ num.j <= num.k
    /\ LET term == NextTerm(num.term, num.j, num.r, num.p)
       IN  num' = [num EXCEPT
                     !.term = term,
                     !.sum = DecAdd(num.sum, term),
                     !.j = num.j + 1]
    /\ SummationFrame

NextSummation ==
    \/ AddTerm
    \/ ReturnCdf
    \/ SumRemainingTerm

SpecSummation == InitSummation /\ [][NextSummation]_vars

(***************************************************************************)
(* C24: for NegativeBinomial with valid (r, p) and every integer k >= 0,   *)
(* cdf(k) equals the sum of pmf(i) for i = 0..k; the early exit on a term  *)
(* below 1e-15 happens only when the remaining terms are negligible, never *)
(* while the terms are still increasing toward the mode.  The sum is       *)
(* compared to the thousandth.                                             *)
(***************************************************************************)
TermsStillIncreasing(r, p, i) == (i + r) * (1000 - p) > (i + 1) * 1000

C24_CdfIsSumOfPmf ==
    (num.pc = "return" /\ num.j > num.k)
      => /\ Thousandths(num.cdf) = Thousandths(num.sum)
         /\ num.early => ~TermsStillIncreasing(num.r, num.p, num.i)

(***************************************************************************)
(* C25: for every registered kind, every parameter set that                *)
(* validate_distribution_parameters accepts is also accepted by the kind's *)
(* own validate_params function.                                           *)
(***************************************************************************)
AcceptedByValidator ==
    /\ vout.call = "validate_distribution_parameters"
    /\ vout.result.error_code = VALIDATION_SUCCESS

C25_ValidatorRefinesOwnValidation ==
    AcceptedByValidator
      => DistValidateParams(
             registry_get_distribution(vin.distribution).distribution_impl,
             vin.parameters, vin.param_count) = 1

(***************************************************************************)
(* NativeBridge (native_bridge.js).  bridge.NativeModule is the module     *)
(* variable of the file ("module" for the object built at load time, or    *)
(* "null"), bridge._originalNativeModule the static field of the class     *)
(* ("undefined" until first assigned).  bridge.forced counts the calls     *)
(* setForceJavaScript(true) made in a row, bridge.before is the mode that  *)
(* getCalculationMode reported before the first of them, and bridge.call   *)
(* is the last call with what it returned; for setForceJavaScript(false)   *)
(* its argument also carries the number of calls with true that preceded.  *)
(***************************************************************************)
MaxForced == 3

Truthy(value) == value \notin {"null", "undefined"}

getCalculationMode(b) ==
    IF Truthy(b.NativeModule) THEN "native" ELSE "javascript"

setForceJavaScript(b, forceJavaScript) ==
    IF forceJavaScript
      THEN [b EXCEPT !._originalNativeModule = b.NativeModule,
                     !.NativeModule = "null"]
      ELSE IF Truthy(b._originalNativeModule)
        THEN [b EXCEPT !.NativeModule = b._originalNativeModule,
                       !._originalNativeModule = "null"]
        ELSE b

CalculationResult(success, pdfResult, cdfResult, errorMessage) ==
    [success |-> success, pdfResult |-> pdfResult, cdfResult |-> cdfResult,
     errorMessage |-> errorMessage]

(* JavaScript numbers: Math.log, Math.exp, a whole number times a number,  *)
(* and the sum of two numbers, by class (NaN, the infinities, zero, other  *)
(* finite values).                                                         *)
Math_log(x) ==
    IF isnan(x) \/ Lt(x, Fin(0)) THEN NaN
    ELSE IF x = Fin(0) THEN NegInf
    ELSE IF x = PosInf THEN PosInf
    ELSE IF x = Fin(1000) THEN Fin(0)
    ELSE Sym("Math.log")

Math_exp(x) ==
    IF isnan(x) THEN NaN
    ELSE IF x = NegInf THEN Fin(0)
    ELSE IF x = PosInf THEN PosInf
    ELSE IF x = Fin(0) THEN Fin(1000)
    ELSE Sym("Math.exp")

Times(count, x) ==
    IF isnan(x) THEN NaN
    ELSE IF isinf(x)
      THEN IF count = 0 THEN NaN
           ELSE IF (count > 0) = (x = PosInf) THEN PosInf ELSE NegInf
    ELSE IF count = 0 \/ x = Fin(0) THEN Fin(0)
    ELSE Sym("product")

Plus(x, y) ==
    IF isnan(x) \/ isnan(y) THEN NaN
    ELSE IF isinf(x) /\ isinf(y) THEN (IF x = y THEN x ELSE NaN)
    ELSE IF isinf(x) THEN x
    ELSE IF isinf(y) THEN y
    ELSE IF x = Fin(0) THEN y
    ELSE IF y = Fin(0) THEN x
    ELSE Sym("sum")

OneMinus(p) ==
    IF isnan(p) THEN NaN
    ELSE IF p = PosInf THEN NegInf
    ELSE IF p = NegInf THEN PosInf
    ELSE Fin(1000 - p.v)

logCombination(n, k) ==
    IF k > n \/ k < 0 THEN NegInf
    ELSE IF k = 0 \/ k = n THEN Fin(0)
    ELSE Sym("logCombination")

logProb(n, p, k) ==
    Plus(Plus(logCombination(n, k), Times(k, Math_log(p))),
         Times(n - k, Math_log(OneMinus(p))))

RECURSIVE SumTo(_, _, _, _, _)
SumTo(n, p, k, i, cdf) ==
    IF i > k THEN cdf
    ELSE SumTo(n, p, k, i + 1, Plus(cdf, Math_exp(logProb(n, p, i))))

jsBinomial(n, p, k) ==
    CalculationResult(TRUE, Math_exp(logProb(n, p, k)),
                      SumTo(n, p, k, 0, Fin(0)), "null")

\* what NativeModule.call('orchestrator_calculate_with_request', request)
\* hands back: the result of the engine
NativeCall(n, p, k) ==
    orchestrator_calculate_with_request(
        [distribution |-> DIST_BINOMIAL,
         parameters |-> <<Fin(1000 * n), p, Fin(0), Fin(0)>>,
         param_count |-> 2,
         input_value |-> Fin(1000 * k)]).result

calculateBinomial(b, n, p, k, thrown) ==
    IF Truthy(b.NativeModule) /\ ~thrown
      THEN CalculationResult(NativeCall(n, p, k).success = 1,
                             NativeCall(n, p, k).pdf_result,
                             NativeCall(n, p, k).cdf_result,
                             NativeCall(n, p, k).error_message)
      ELSE jsBinomial(n, p, k)

Trials == {0, 5, 10}
SuccessProbabilities ==
    {NaN, Fin(-500), Fin(0), Fin(300), Fin(1000), Fin(1500)}
SuccessCounts == {-1, 0, 3, 5, 12}

BridgeCall(name, argument, returned) ==
    [name |-> name, argument |-> argument, returned |-> returned]

InitBridge ==
    /\ vin = 0 /\ vout = 0 /\ vpc = 0
    /\ request = 0 /\ outcome = 0 /\ rpc = 0
    /\ state = 0 /\ op = 0 /\ adds = 0
    /\ reg = 0 /\ thr = 0
    /\ darg = 0 /\ dres = 0
    /\ num = 0
    /\ hist = 0
    /\ \E module \in {"module", "null"} :
         bridge = [NativeModule |-> module,
                   _originalNativeModule |-> "undefined",
                   forced |-> 0,
                   before |-> IF module = "module" THEN "native"
                                                   ELSE "javascript",
                   call |-> BridgeCall("none", <<>>, "undefined")]
    /\ kbd = 0
    /\ lru = 0

BridgeFrame ==
    UNCHANGED <<valVars, reqVars, appVars, regVars, distVars, numVars,
                histVars, kbd, lru>>

ForceJavaScript ==
    /\ bridge.forced < MaxForced
    /\ bridge' = [setForceJavaScript(bridge, TRUE) EXCEPT
                    !.forced = bridge.forced + 1,
                    !.before = IF bridge.forced = 0
                                 THEN getCalculationMode(bridge)
                                 ELSE bridge.before,
                    !.call = BridgeCall("setForceJavaScript", <<TRUE>>,
                                        "undefined")]
    /\ BridgeFrame

ReleaseJavaScript ==
    /\ bridge' = [setForceJavaScript(bridge, FALSE) EXCEPT
                    !.forced = 0,
                    !.call = BridgeCall("setForceJavaScript",
                                        <<FALSE, bridge.forced>>,
                                        "undefined")]
    /\ BridgeFrame

GetCalculationMode ==
    /\ bridge' = [bridge EXCEPT
                    !.forced = 0,
                    !.call = BridgeCall("getCalculationMode", <<>>,
                                        getCalculationMode(bridge))]
    /\ BridgeFrame

CalculateBinomial ==
    /\ \E n \in Trials, p \in SuccessProbabilities, k \in SuccessCounts,
          thrown \in BOOLEAN :
         bridge' = [bridge EXCEPT
                      !.forced = 0,
                      !.call = BridgeCall("calculateBinomial", <<n, p, k>>,
                                          calculateBinomial(bridge, n, p, k,
                                                            thrown))]
    /\ BridgeFrame

NextBridge ==
    \/ ForceJavaScript
    \/ ReleaseJavaScript
    \/ GetCalculationMode
    \/ CalculateBinomial

SpecBridge == InitBridge /\ [][NextBridge]_vars

(***************************************************************************)
(* C26: after n >= 1 calls NativeBridge.setForceJavaScript(true) in a row  *)
(* followed by one setForceJavaScript(false), getCalculationMode() returns *)
(* the mode it returned before the first of these calls.                   *)
(***************************************************************************)
ReleasedAfterForcing ==
    /\ bridge.call.name = "setForceJavaScript"
    /\ bridge.call.argument[1] = FALSE
    /\ bridge.call.argument[2] >= 1

C26_ForceThenReleaseRestoresMode ==
    ReleasedAfterForcing => getCalculationMode(bridge) = bridge.before

(***************************************************************************)
(* C28: every CalculationResult that NativeBridge returns with success =   *)
(* true carries a finite pdf and a finite cdf, on the native path and on   *)
(* the JavaScript fallback path, for every combination of parameters and   *)
(* input, invalid parameters (a probability outside [0,1]) included.       *)
(***************************************************************************)
C28_SuccessCarriesFiniteResults ==
    (bridge.call.name = "calculateBinomial" /\ bridge.call.returned.success)
      => /\ isfinite(bridge.call.returned.pdfResult)
         /\ isfinite(bridge.call.returned.cdfResult)

(***************************************************************************)
(* GlobalState (global_state.js): the keyboard result, its timestamp and   *)
(* the pending setTimeout callbacks of getKeyboardResult.  Time is in      *)
(* milliseconds.  kbd.timers is the set of the times at which a pending    *)
(* callback is due (a callback runs at or after that time, between any two *)
(* calls), kbd.unread is the value stored by setKeyboardResult and not yet *)
(* read ("none" if there is none), stored at time kbd.storedAt, and        *)
(* kbd.call is the last call with what it returned, next to the value that *)
(* was unread and its age then.                                            *)
(***************************************************************************)
MaxTime == 3000

CLEAR_DELAY == 1000

STALE_AFTER == 2000

Elapse == {500, 1000}

KeyboardResults == {"a", "b"}

\* resultTimestamp = null
NoTimestamp == -1

KeyboardCall(name, returned, unread, age) ==
    [name |-> name, returned |-> returned, unread |-> unread, age |-> age]

clearKeyboardResult(g) ==
    [g EXCEPT !.keyboardResult = "null", !.resultTimestamp = NoTimestamp]

setKeyboardResult(g, result) ==
    [g EXCEPT !.keyboardResult = result, !.resultTimestamp = g.now]

\* the fields after getKeyboardResult(); the value returned is
\* g.keyboardResult
getKeyboardResult(g) ==
    IF g.keyboardResult # "null" /\ g.resultTimestamp # NoTimestamp
          /\ g.now - g.resultTimestamp > STALE_AFTER
      THEN clearKeyboardResult(g)
      ELSE IF g.keyboardResult # "null"
        THEN [g EXCEPT !.timers = g.timers \cup {g.now + CLEAR_DELAY}]
        ELSE g

InitKeyboard ==
    /\ vin = 0 /\ vout = 0 /\ vpc = 0
    /\ request = 0 /\ outcome = 0 /\ rpc = 0
    /\ state = 0 /\ op = 0 /\ adds = 0
    /\ reg = 0 /\ thr = 0
    /\ darg = 0 /\ dres = 0
    /\ num = 0
    /\ hist = 0
    /\ bridge = 0
    /\ kbd = [keyboardResult |-> "null", resultTimestamp |-> NoTimestamp,
              now |-> 0, timers |-> {}, unread |-> "none", storedAt |-> 0,
              call |-> KeyboardCall("constructor", "null", "none", 0)]
    /\ lru = 0

KeyboardFrame ==
    UNCHANGED <<valVars, reqVars, appVars, regVars, distVars, numVars,
                histVars, bridge, lru>>

SetKeyboardResult ==
    /\ \E result \in KeyboardResults :
         kbd' = [setKeyboardResult(kbd, result) EXCEPT
                   !.unread = result,
                   !.storedAt = kbd.now,
                   !.call = KeyboardCall("setKeyboardResult", "undefined",
                                         kbd.unread, 0)]
    /\ KeyboardFrame

GetKeyboardResult ==
    /\ kbd' = [getKeyboardResult(kbd) EXCEPT
                 !.unread = "none",
                 !.call = KeyboardCall(
                              "getKeyboardResult", kbd.keyboardResult,
                              kbd.unread,
                              kbd.now - kbd.storedAt)]
    /\ KeyboardFrame

ClearTimerFires ==
    /\ \E due \in kbd.timers :
         /\ due <= kbd.now
         /\ kbd' = [clearKeyboardResult(kbd) EXCEPT
                      !.timers = kbd.timers \ {due},
                      !.call = KeyboardCall("setTimeout callback",
                                            "undefined", kbd.unread, 0)]
    /\ KeyboardFrame

TimePasses ==
    /\ \E ms \in Elapse :
         /\ kbd.now + ms <= MaxTime
         /\ kbd' = [kbd EXCEPT !.now = kbd.now + ms]
    /\ KeyboardFrame

NextKeyboard ==
    \/ SetKeyboardResult
    \/ GetKeyboardResult
    \/ ClearTimerFires
    \/ TimePasses

SpecKeyboard == InitKeyboard /\ [][NextKeyboard]_vars

(***************************************************************************)
(* C27: a value stored by setKeyboardResult is returned by the next        *)
(* getKeyboardResult made within 2 seconds, for every interleaving of set, *)
(* get and the firing of the delayed-clear timers; a clear timer scheduled *)
(* by reading an earlier result never erases a newer unread result.        *)
(***************************************************************************)
C27_StoredResultIsReturned ==
    (/\ kbd.call.name = "getKeyboardResult"
     /\ kbd.call.unread # "none"
     /\ kbd.call.age <= STALE_AFTER)
      => kbd.call.returned = kbd.call.unread

(***************************************************************************)
(* LRUCache (lru_cache.js).  A Node is named by its key, "head" and "tail" *)
(* are the two sentinels; lru.cache is the set of the keys of the Map,     *)
(* lru.value, lru.prev and lru.next are the fields of the nodes ("null"    *)
(* for a node that is not in use: a node dropped from the Map is           *)
(* unreachable).  lru.touch lists the stored keys by the time of their     *)
(* last get or set, the oldest first, and lru.call is the last call, with  *)
(* the keys it removed from the Map and the key that was the least         *)
(* recently touched when it was made.                                      *)
(***************************************************************************)
MaxCacheSize == 2

CacheKeys == {"k1", "k2", "k3"}
CacheValues == {"x", "y"}
Nodes == CacheKeys \cup {"head", "tail"}

LRUCache(maxSize) ==
    [maxSize |-> maxSize,
     cache |-> {},
     value |-> [n \in Nodes |-> "null"],
     prev |-> [n \in Nodes |-> IF n = "tail" THEN "head" ELSE "null"],
     next |-> [n \in Nodes |-> IF n = "head" THEN "tail" ELSE "null"]]

lru_remove(c, node) ==
    [c EXCEPT !.next[c.prev[node]] = c.next[node],
              !.prev[c.next[node]] = c.prev[node]]

\* node.next = head.next; node.prev = head; head.next.prev = node;
\* head.next = node
lru_add(c, node) ==
    [c EXCEPT !.next = [c.next EXCEPT ![node] = c.next["head"],
                                      !["head"] = node],
              !.prev = [c.prev EXCEPT ![node] = "head",
                                      ![c.next["head"]] = node]]

lru_get_without_touch(c, key) ==
    IF key \notin c.cache
      THEN [returned |-> "null", cache |-> c]
      ELSE [returned |-> c.value[key], cache |-> c]

lru_get(c, key) ==
    IF key \notin c.cache
      THEN [returned |-> "null", cache |-> c]
      ELSE [returned |-> c.value[key],
            cache |-> lru_add(lru_remove(c, key), key)]

\* the cache after the oldest node has left the list and the Map
lru_evict(c, oldestNode) ==
    [lru_remove(c, oldestNode) EXCEPT
        !.cache = c.cache \ {oldestNode},
        !.value[oldestNode] = "null",
        !.prev[oldestNode] = "null",
        !.next[oldestNode] = "null"]

\* const newNode = new Node(key, value); this.cache.set(key, newNode);
\* this._add(newNode)
lru_insert(c, key, value) ==
    lru_add([c EXCEPT !.cache = c.cache \cup {key}, !.value[key] = value],
            key)

lru_set(c, key, value) ==
    IF c.maxSize <= 0 THEN c
    ELSE IF key \in c.cache
      THEN lru_add(lru_remove([c EXCEPT !.value[key] = value], key), key)
    ELSE IF Cardinality(c.cache) >= c.maxSize
      THEN lru_insert(lru_evict(c, c.prev["tail"]), key, value)
      ELSE lru_insert(c, key, value)

lru_has(c, key) == key \in c.cache

lru_clear(c) ==
    [c EXCEPT !.cache = {},
              !.value = [n \in Nodes |-> "null"],
              !.prev = [n \in Nodes |-> IF n = "tail" THEN "head" ELSE "null"],
              !.next = [n \in Nodes |-> IF n = "head" THEN "tail" ELSE "null"]]

\* the keys met from head.next along next up to the tail, and from
\* tail.prev along prev up to the head, in at most left steps
RECURSIVE Forward(_, _, _)
Forward(c, node, left) ==
    IF node \in {"tail", "null"} \/ left = 0 THEN <<>>
    ELSE <<node>> \o Forward(c, c.next[node], left - 1)

RECURSIVE Backward(_, _, _)
Backward(c, node, left) ==
    IF node \in {"head", "null"} \/ left = 0 THEN <<>>
    ELSE <<node>> \o Backward(c, c.prev[node], left - 1)

Without(seq, key) == SelectSeq(seq, LAMBDA k : k # key)

Program(c) == [f \in {"maxSize", "cache", "value", "prev", "next"} |-> c[f]]

CacheCall(name, key, returned) ==
    [name |-> name, key |-> key, returned |-> returned]

Oldest(c) == IF c.touch = <<>> THEN "null" ELSE Head(c.touch)

Called(c, after, call, touch) ==
    [maxSize |-> after.maxSize, cache |-> after.cache, value |-> after.value,
     prev |-> after.prev, next |-> after.next,
     touch |-> SelectSeq(touch, LAMBDA k : k \in after.cache),
     call |-> [name |-> call.name, key |-> call.key,
               returned |-> call.returned,
               removed |-> c.cache \ after.cache,
               oldest |-> Oldest(c),
               full |-> Cardinality(c.cache) >= c.maxSize,
               fresh |-> call.key \notin c.cache]]

InitCache ==
    /\ vin = 0 /\ vout = 0 /\ vpc = 0
    /\ request = 0 /\ outcome = 0 /\ rpc = 0
    /\ state = 0 /\ op = 0 /\ adds = 0
    /\ reg = 0 /\ thr = 0
    /\ darg = 0 /\ dres = 0
    /\ num = 0
    /\ hist = 0
    /\ bridge = 0
    /\ kbd = 0
    /\ \E maxSize \in 1..MaxCacheSize :
         lru = Called(LRUCache(maxSize) @@ [touch |-> <<>>],
                      LRUCache(maxSize),
                      CacheCall("constructor", "null", "undefined"),
                      <<>>)

CacheFrame ==
    UNCHANGED <<valVars, reqVars, appVars, regVars, distVars, numVars,
                histVars, bridge, kbd>>

CacheGet ==
    /\ \E key \in CacheKeys :
         lru' = Called(lru, lru_get(Program(lru), key).cache,
                       CacheCall("get", key,
                                 lru_get(Program(lru), key).returned),
                       IF key \in lru.cache
                         THEN Append(Without(lru.touch, key), key)
                         ELSE lru.touch)
    /\ CacheFrame

CacheSet ==
    /\ \E key \in CacheKeys, value \in CacheValues :
         lru' = Called(lru, lru_set(Program(lru), key, value),
                       CacheCall("set", key, "undefined"),
                       Append(Without(lru.touch, key), key))
    /\ CacheFrame

CacheHas ==
    /\ \E key \in CacheKeys :
         lru' = Called(lru, Program(lru),
                       CacheCall("has", key, lru_has(Program(lru), key)),
                       lru.touch)
    /\ CacheFrame

CacheClear ==
    /\ lru' = Called(lru, lru_clear(Program(lru)),
                     CacheCall("clear", "null", "undefined"),
                     <<>>)
    /\ CacheFrame

NextCache ==
    \/ CacheGet
    \/ CacheSet
    \/ CacheHas
    \/ CacheClear

SpecCache == InitCache /\ [][NextCache]_vars

(***************************************************************************)
(* C30: after any sequence of get, set, has and clear on an LRUCache with  *)
(* maxSize >= 1, the number of stored keys never exceeds maxSize, the key  *)
(* map and the linked list hold exactly the same keys, and a set of a new  *)
(* key into a full cache removes exactly the key least recently touched by *)
(* get or set (has is not a touch).                                        *)
(***************************************************************************)
KeysOf(seq) == {seq[i] : i \in 1..Len(seq)}

SetOfNewKeyIntoFullCache ==
    /\ lru.call.name = "set"
    /\ lru.call.fresh
    /\ lru.call.full

C30_CacheKeepsMostRecentlyTouched ==
    /\ Cardinality(lru.cache) <= lru.maxSize
    /\ KeysOf(Forward(lru, lru.next["head"], Cardinality(Nodes))) = lru.cache
    /\ Len(Forward(lru, lru.next["head"], Cardinality(Nodes)))
         = Cardinality(lru.cache)
    /\ KeysOf(Backward(lru, lru.prev["tail"], Cardinality(Nodes))) = lru.cache
    /\ Len(Backward(lru, lru.prev["tail"], Cardinality(Nodes)))
         = Cardinality(lru.cache)
    /\ IF SetOfNewKeyIntoFullCache
         THEN lru.call.removed = {lru.call.oldest}
         ELSE lru.call.name # "clear" => lru.call.removed = {}

C30_Witness ==
    /\ SetOfNewKeyIntoFullCache
    /\ lru.maxSize = 2
    /\ lru.call.key = "k3"
    /\ lru.call.removed = {"k2"}
    /\ lru.touch = <<"k1", "k3">>
    /\ Forward(lru, lru.next["head"], Cardinality(Nodes)) = <<"k3", "k1">>

====
